---- MODULE Spec2Model ----
(***************************************************************************)
(* Versioned key-value store of campustudio/vd-ct.                         *)
(*                                                                         *)
(* Three servers expose the same two operations (POST /object and          *)
(* GET /object/:key) over three backends:                                  *)
(*   sqlite : server.js         + src/database.js                          *)
(*   mongo  : server-mongodb.js + src/database-mongodb.js                  *)
(*   memory : api/index.js      (a Map of arrays)                          *)
(* The model runs the three servers side by side: every request is handed  *)
(* to each of them at the same clock reading, and the three responses are  *)
(* kept, so that each server can be examined alone and against the others. *)
(*                                                                         *)
(* Strings the code inspects character by character (keys, the timestamp   *)
(* query parameter) are sequences of one-character strings.                *)
(* Math.floor(Date.now() / 1000) is the variable now, a clock of whole     *)
(* seconds that never runs backwards.                                      *)
(***************************************************************************)
EXTENDS Integers, Sequences, FiniteSets, TLC

VARIABLES now, sqlRows, mongoDocs, memStore, running, req, resp, log,
          fnIn, fnOut, fault, writers, life, boot

\* the variables of the specifications other than Spec (see below)
aux == <<fnIn, fnOut, fault, writers, life, boot>>

vars == <<now, sqlRows, mongoDocs, memStore, running, req, resp, log, aux>>
stores == <<sqlRows, mongoDocs, memStore>>

(***************************************************************************)
(* Bounds of the model.                                                    *)
(***************************************************************************)
MaxNow == 2
MaxWrites == 2

(***************************************************************************)
(* Program constants.                                                      *)
(***************************************************************************)
MaxKeyLen == 255
OneDay == 86400

(***************************************************************************)
(* Characters and numeric strings.                                         *)
(***************************************************************************)
Digits == {"0", "1", "2", "3", "4", "5", "6", "7", "8", "9"}

Lower == {"a", "b", "c", "d", "e", "f", "g", "h", "i", "j", "k", "l", "m",
          "n", "o", "p", "q", "r", "s", "t", "u", "v", "w", "x", "y", "z"}

Upper == {"A", "B", "C", "D", "E", "F", "G", "H", "I", "J", "K", "L", "M",
          "N", "O", "P", "Q", "R", "S", "T", "U", "V", "W", "X", "Y", "Z"}

\* the character class of keySchema's pattern /^[a-zA-Z0-9_\-\.]+$/
KeyChars == Lower \cup Upper \cup Digits \cup {"_", "-", "."}

DigitVal(c) ==
  CASE c = "0" -> 0 [] c = "1" -> 1 [] c = "2" -> 2 [] c = "3" -> 3
    [] c = "4" -> 4 [] c = "5" -> 5 [] c = "6" -> 6 [] c = "7" -> 7
    [] c = "8" -> 8 [] c = "9" -> 9

DigitChar(d) ==
  CASE d = 0 -> "0" [] d = 1 -> "1" [] d = 2 -> "2" [] d = 3 -> "3"
    [] d = 4 -> "4" [] d = 5 -> "5" [] d = 6 -> "6" [] d = 7 -> "7"
    [] d = 8 -> "8" [] d = 9 -> "9"

\* a number written out in decimal, as a client writes ?timestamp=<n>
RECURSIVE ToDigits(_)
ToDigits(n) ==
  IF n < 10 THEN <<DigitChar(n)>>
  ELSE Append(ToDigits(n \div 10), DigitChar(n % 10))

NaN == -1

\* the value of the leading run of digits of s, NaN when there is none
RECURSIVE DigitsValue(_, _, _)
DigitsValue(s, i, acc) ==
  IF i > Len(s) \/ s[i] \notin Digits THEN acc
  ELSE DigitsValue(s, i + 1, acc * 10 + DigitVal(s[i]))

ParseInt(s) ==
  IF Len(s) = 0 \/ s[1] \notin Digits THEN NaN ELSE DigitsValue(s, 1, 0)

(***************************************************************************)
(* JSON values.  A value is its JavaScript type and its text: for a string *)
(* the characters of the string, for every other type the text             *)
(* JSON.stringify gives it.                                                *)
(***************************************************************************)
JsonValue(type, text) == [type |-> type, text |-> text]

StrA    == JsonValue("string", "value1")
Str5    == JsonValue("string", "5")
Num5    == JsonValue("number", "5")
ObjX    == JsonValue("object", "{\"x\":1}")

\* the values that are not strings: what JSON.parse can give back for a
\* text of the model
Literals == {Num5, ObjX}

Values == {StrA, Str5} \cup Literals

JSONStringify(v) ==
  IF v.type = "string" THEN "\"" \o v.text \o "\"" ELSE v.text

ParseError == JsonValue("SyntaxError", "")

JSONParse(text) ==
  IF \E v \in Literals : v.text = text
  THEN CHOOSE v \in Literals : v.text = text
  ELSE ParseError

Null == [null |-> TRUE]


(***************************************************************************)
(* src/validators.js.  Each validator gives the type of the first Joi      *)
(* error, or NoError.                                                      *)
(***************************************************************************)
NoError == "none"

\* mutant: max(255) taken as exclusive
validateKey_exclusiveMax(key) ==
  IF Len(key) = 0 THEN "string.empty"
  ELSE IF Len(key) >= MaxKeyLen THEN "string.max"
  ELSE IF \E i \in 1..Len(key) : key[i] \notin KeyChars THEN "string.pattern.base"
  ELSE NoError

validateKey(key) ==
  IF Len(key) = 0 THEN "string.empty"
  ELSE IF Len(key) > MaxKeyLen THEN "string.max"
  ELSE IF \E i \in 1..Len(key) : key[i] \notin KeyChars THEN "string.pattern.base"
  ELSE NoError

\* a request body is [type, entries]: the JSON type of the parsed body and,
\* for an object, its properties in order (Object.entries)
validateValue(body) ==
  IF body.type # "object" THEN "object.base"
  ELSE IF Len(body.entries) < 1 THEN "object.min"
  ELSE NoError

\* mutant: the day ahead taken as exclusive
validateTimestamp_exclusive(timestamp, clock) ==
  IF Len(timestamp) = 0 THEN "string.empty"
  ELSE IF \E i \in 1..Len(timestamp) : timestamp[i] \notin Digits
       THEN "string.pattern.base"
  ELSE IF ParseInt(timestamp) < 0 THEN "any.invalid"
  ELSE IF ParseInt(timestamp) >= clock + OneDay THEN "any.invalid"
  ELSE NoError

validateTimestamp(timestamp, clock) ==
  IF Len(timestamp) = 0 THEN "string.empty"
  ELSE IF \E i \in 1..Len(timestamp) : timestamp[i] \notin Digits
       THEN "string.pattern.base"
  ELSE IF ParseInt(timestamp) < 0 THEN "any.invalid"
  ELSE IF ParseInt(timestamp) > clock + OneDay THEN "any.invalid"
  ELSE NoError

\* the result of timestampSchema.validate: the error and, when there is
\* none, the value the custom rule returns (the parsed integer)
timestampSchema_validate(timestamp, clock) ==
  [error |-> validateTimestamp(timestamp, clock),
   value |-> IF validateTimestamp(timestamp, clock) = NoError
             THEN ParseInt(timestamp) ELSE Null]

(***************************************************************************)
(* src/database.js: the kv_store table is a set of rows [key, value,       *)
(* timestamp] with value the stored TEXT; UNIQUE(key, timestamp).          *)
(***************************************************************************)
\* mutant: the insert replaces every row of the key (UNIQUE(key))
Database_storeValue_replacesKey(rows, key, value, timestamp) ==
  LET valueStr == IF value.type = "string" THEN value.text
                  ELSE JSONStringify(value)
  IN  {r \in rows : r.key # key}
        \cup {[key |-> key, value |-> valueStr, timestamp |-> timestamp]}

\* mutant: the insert replaces every row of the timestamp (UNIQUE(timestamp))
Database_storeValue_replacesTimestamp(rows, key, value, timestamp) ==
  LET valueStr == IF value.type = "string" THEN value.text
                  ELSE JSONStringify(value)
  IN  {r \in rows : r.timestamp # timestamp}
        \cup {[key |-> key, value |-> valueStr, timestamp |-> timestamp]}

Database_storeValue(rows, key, value, timestamp) ==
  LET valueStr == IF value.type = "string" THEN value.text
                  ELSE JSONStringify(value)
  IN  {r \in rows : ~(r.key = key /\ r.timestamp = timestamp)}
        \cup {[key |-> key, value |-> valueStr, timestamp |-> timestamp]}

\* ORDER BY timestamp DESC LIMIT 1 over the rows selected by WHERE
OrderByTimestampDescLimit1(selected) ==
  IF selected = {} THEN Null
  ELSE CHOOSE r \in selected : \A q \in selected : q.timestamp <= r.timestamp

\* mutant: ORDER BY timestamp ASC
Database_getLatestValue_ascending(rows, key) ==
  LET selected == {r \in rows : r.key = key}
      row == IF selected = {} THEN Null
             ELSE CHOOSE r \in selected :
                    \A q \in selected : r.timestamp <= q.timestamp
  IN  IF row = Null THEN Null
      ELSE [key |-> row.key, value |-> JsonValue("string", row.value),
            timestamp |-> row.timestamp]

Database_getLatestValue(rows, key) ==
  LET row == OrderByTimestampDescLimit1({r \in rows : r.key = key})
  IN  IF row = Null THEN Null
      ELSE [key |-> row.key, value |-> JsonValue("string", row.value),
            timestamp |-> row.timestamp]

\* mutant: WHERE key = ? AND timestamp = ?
Database_getValueAtTimestamp_exact(rows, key, timestamp) ==
  LET row == OrderByTimestampDescLimit1(
               {r \in rows : r.key = key /\ r.timestamp = timestamp})
  IN  IF row = Null THEN Null
      ELSE LET parsed == JSONParse(row.value)
               parsedValue == IF parsed = ParseError
                              THEN JsonValue("string", row.value)
                              ELSE parsed
           IN  [key |-> row.key, value |-> parsedValue,
                timestamp |-> row.timestamp]

\* mutant: WHERE key = ? without the bound on timestamp
Database_getValueAtTimestamp_unbounded(rows, key, timestamp) ==
  LET row == OrderByTimestampDescLimit1({r \in rows : r.key = key})
  IN  IF row = Null THEN Null
      ELSE LET parsed == JSONParse(row.value)
               parsedValue == IF parsed = ParseError
                              THEN JsonValue("string", row.value)
                              ELSE parsed
           IN  [key |-> row.key, value |-> parsedValue,
                timestamp |-> row.timestamp]

Database_getValueAtTimestamp(rows, key, timestamp) ==
  LET row == OrderByTimestampDescLimit1(
               {r \in rows : r.key = key /\ r.timestamp <= timestamp})
  IN  IF row = Null THEN Null
      ELSE LET parsed == JSONParse(row.value)
               parsedValue == IF parsed = ParseError
                              THEN JsonValue("string", row.value)
                              ELSE parsed
           IN  [key |-> row.key, value |-> parsedValue,
                timestamp |-> row.timestamp]

Database_getStats(rows) ==
  [total_records |-> Cardinality(rows),
   unique_keys |-> Cardinality({r.key : r \in rows})]

(***************************************************************************)
(* src/database-mongodb.js: the kv_pairs collection is the sequence of     *)
(* inserted documents [key, value, timestamp]; its two indexes are not     *)
(* unique.                                                                 *)
(***************************************************************************)
MongoDatabase_storeValue(docs, key, value, clock) ==
  LET timestamp == clock
      document == [key |-> key, value |-> value, timestamp |-> timestamp]
  IN  [docs |-> Append(docs, document),
       result |-> [key |-> key, value |-> value, timestamp |-> timestamp]]

\* `if (timestamp)` as it would be of a parameter converted to a number
\* before the test: 0 is falsy
Truthy_numeric(timestamp) ==
  timestamp.present /\ Len(timestamp.raw) > 0 /\ ParseInt(timestamp.raw) # 0

\* a query parameter is [present, raw]; `if (timestamp)` is true of a
\* non-empty string
Truthy(timestamp) == timestamp.present /\ Len(timestamp.raw) > 0

\* findOne(query, {sort: {timestamp: -1}}): the documents that may come
\* first in the sort; documents of equal timestamp are in no defined order
MongoDatabase_getValue(docs, key, timestamp) ==
  LET matching == {i \in 1..Len(docs) :
                     /\ docs[i].key = key
                     /\ Truthy(timestamp) =>
                          docs[i].timestamp <= ParseInt(timestamp.raw)}
      first == {i \in matching :
                  \A j \in matching : docs[j].timestamp <= docs[i].timestamp}
  IN  IF matching = {} THEN {Null}
      ELSE {[value |-> docs[i].value, timestamp |-> docs[i].timestamp] :
              i \in first}

MongoDatabase_getStats(docs) ==
  [total_records |-> Len(docs),
   unique_keys |-> Cardinality({docs[i].key : i \in 1..Len(docs)})]

MongoDatabase_healthCheck(docs) ==
  [status |-> "connected", stats |-> MongoDatabase_getStats(docs)]

(***************************************************************************)
(* HTTP responses: the status, the JSON body, and result, the object the   *)
(* backend call of the handler returned (Null when it returned none or no  *)
(* call was made).                                                         *)
(***************************************************************************)
Response(status, body, result) ==
  [status |-> status, body |-> body, result |-> result]

ErrorResponse(status, error) == Response(status, [error |-> error], Null)

InternalServerError == ErrorResponse(500, "Internal server error")

\* the checks every POST /object handler makes before it stores:
\* the error response, or Null when the body passes
\* mutant: the key of the first property is validated before the
\* properties are counted
PostRejection_keyFirst(body) ==
  IF validateValue(body) # NoError
  THEN ErrorResponse(400, "Invalid request body")
  ELSE IF validateKey(body.entries[1].key) # NoError
  THEN ErrorResponse(400, "Invalid key")
  ELSE IF Len(body.entries) # 1
  THEN ErrorResponse(400, "Request body must contain exactly one key-value pair")
  ELSE Null

\* mutant: the number of properties is not checked
PostRejection_anyArity(body) ==
  IF validateValue(body) # NoError
  THEN ErrorResponse(400, "Invalid request body")
  ELSE IF validateKey(body.entries[1].key) # NoError
  THEN ErrorResponse(400, "Invalid key")
  ELSE Null

PostRejection(body) ==
  IF validateValue(body) # NoError
  THEN ErrorResponse(400, "Invalid request body")
  ELSE IF Len(body.entries) # 1
  THEN ErrorResponse(400, "Request body must contain exactly one key-value pair")
  ELSE IF validateKey(body.entries[1].key) # NoError
  THEN ErrorResponse(400, "Invalid key")
  ELSE Null

(***************************************************************************)
(* server.js (SQLite).  Each handler gives the response and the table      *)
(* after it.                                                               *)
(***************************************************************************)
SqlitePost(rows, body, clock) ==
  IF PostRejection(body) # Null
  THEN [resp |-> PostRejection(body), rows |-> rows]
  ELSE LET key == body.entries[1].key
           value == body.entries[1].value
           timestamp == clock
       IN  [resp |-> Response(200,
                       [key |-> key, value |-> value, timestamp |-> timestamp],
                       Null),
            rows |-> Database_storeValue(rows, key, value, timestamp)]

SqliteGet(rows, key, timestamp, clock) ==
  IF validateKey(key) # NoError THEN ErrorResponse(400, "Invalid key")
  ELSE IF Truthy(timestamp)
  THEN IF validateTimestamp(timestamp.raw, clock) # NoError
       THEN ErrorResponse(400, "Invalid timestamp")
       ELSE LET result == Database_getValueAtTimestamp(
                            rows, key, ParseInt(timestamp.raw))
            IN  IF result = Null
                THEN ErrorResponse(404,
                       "No value found for key at the specified timestamp")
                ELSE Response(200, [value |-> result.value], result)
  ELSE LET result == Database_getLatestValue(rows, key)
       IN  IF result = Null
           THEN ErrorResponse(404, "Key not found")
           ELSE Response(200, [value |-> result.value], result)

SqliteHealth == Response(200, [status |-> "healthy"], Null)

(***************************************************************************)
(* server-mongodb.js (MongoDB).                                            *)
(***************************************************************************)
MongoPost(docs, body, clock) ==
  IF PostRejection(body) # Null
  THEN [resp |-> PostRejection(body), docs |-> docs]
  ELSE LET key == body.entries[1].key
           value == body.entries[1].value
           stored == MongoDatabase_storeValue(docs, key, value, clock)
       IN  [resp |-> Response(200, stored.result, Null),
            docs |-> stored.docs]

\* the responses the handler can give: one for each document findOne may
\* return
MongoGet(docs, key, timestamp, clock) ==
  IF Truthy(timestamp) /\ validateTimestamp(timestamp.raw, clock) # NoError
  THEN {ErrorResponse(400, "Invalid timestamp")}
  ELSE {IF result = Null
        THEN ErrorResponse(404, "Key not found")
        ELSE Response(200, [value |-> result.value], result) :
          result \in MongoDatabase_getValue(docs, key, timestamp)}

MongoHealth(docs) ==
  LET health == MongoDatabase_healthCheck(docs)
  IN  Response(200,
        [status |-> "healthy", database |-> health.status,
         stats |-> health.stats],
        Null)

(***************************************************************************)
(* api/index.js (in-memory): store is a Map from keys to arrays of         *)
(* {value, timestamp}, modelled as a function whose domain is the keys     *)
(* the Map has.                                                            *)
(***************************************************************************)
MapSet(store, key, versions) ==
  [k \in DOMAIN store \cup {key} |-> IF k = key THEN versions ELSE store[k]]

\* mutant: the new version is put in front (unshift)
MemoryPost_unshift(store, body, clock) ==
  IF PostRejection(body) # Null
  THEN [resp |-> PostRejection(body), store |-> store]
  ELSE LET key == body.entries[1].key
           value == body.entries[1].value
           timestamp == clock
           created == IF key \notin DOMAIN store
                      THEN MapSet(store, key, <<>>) ELSE store
       IN  [resp |-> Response(200,
                       [key |-> key, value |-> value, timestamp |-> timestamp],
                       Null),
            store |-> MapSet(created, key,
                        <<[value |-> value, timestamp |-> timestamp]>>
                          \o created[key])]

MemoryPost(store, body, clock) ==
  IF PostRejection(body) # Null
  THEN [resp |-> PostRejection(body), store |-> store]
  ELSE LET key == body.entries[1].key
           value == body.entries[1].value
           timestamp == clock
           created == IF key \notin DOMAIN store
                      THEN MapSet(store, key, <<>>) ELSE store
       IN  [resp |-> Response(200,
                       [key |-> key, value |-> value, timestamp |-> timestamp],
                       Null),
            store |-> MapSet(created, key,
                        Append(created[key],
                               [value |-> value, timestamp |-> timestamp]))]

\* mutant: only !versions
Missing_undefinedOnly(store, key) == key \notin DOMAIN store

\* const versions = store.get(key); !versions || versions.length === 0
Missing(store, key) == key \notin DOMAIN store \/ Len(store[key]) = 0

\* mutant: the comparison is turned round
Filter_after(versions, targetTimestamp) ==
  SelectSeq(versions, LAMBDA v : v.timestamp >= targetTimestamp)

Filter(versions, targetTimestamp) ==
  SelectSeq(versions, LAMBDA v : v.timestamp <= targetTimestamp)

MemoryGet(store, key, timestamp, clock) ==
  IF validateKey(key) # NoError THEN ErrorResponse(400, "Invalid key")
  ELSE IF Missing(store, key)
  THEN ErrorResponse(404, "Key not found")
  ELSE LET versions == store[key]
       IN  IF Truthy(timestamp)
           THEN IF validateTimestamp(timestamp.raw, clock) # NoError
                THEN ErrorResponse(400, "Invalid timestamp")
                ELSE LET validVersions ==
                           Filter(versions, ParseInt(timestamp.raw))
                     IN  IF Len(validVersions) = 0
                         THEN ErrorResponse(404,
                                "No value found for key at the specified timestamp")
                         ELSE LET latestVersion ==
                                    validVersions[Len(validVersions)]
                              IN  Response(200,
                                    [value |-> latestVersion.value],
                                    latestVersion)
           ELSE IF Len(versions) = 0
                \* versions[-1] is undefined: the TypeError is caught
                THEN ErrorResponse(500, "Internal server error")
                ELSE LET latestVersion == versions[Len(versions)]
                     IN  Response(200, [value |-> latestVersion.value],
                                  latestVersion)

MemoryHealth(store) ==
  Response(200,
    [status |-> "healthy", storeSize |-> Cardinality(DOMAIN store)], Null)

(***************************************************************************)
(* The requests of the model.                                              *)
(***************************************************************************)
K1 == <<"k", "1">>
K2 == <<"a", ".", "b", "-", "c", "_", "9">>
KBad == <<"k", "!">>
KEmpty == <<>>

ValidKeys == {K1, K2}
PathKeys == ValidKeys \cup {KBad}

Entry(key, value) == [key |-> key, value |-> value]
Object(entries) == [type |-> "object", entries |-> entries]
NoBody == [type |-> "undefined", entries |-> <<>>]

Bodies ==
  {Object(<<Entry(K1, v)>>) : v \in Values}
    \cup {Object(<<Entry(K2, Num5)>>)}
    \cup {Object(<<Entry(k, StrA)>>) : k \in {KBad, KEmpty}}
    \cup {Object(<<>>), Object(<<Entry(K1, StrA), Entry(K2, Num5)>>),
          [type |-> "array", entries |-> <<>>]}

Absent == [present |-> FALSE, raw |-> <<>>]
Param(raw) == [present |-> TRUE, raw |-> raw]

TimestampParams ==
  {Absent, Param(<<>>), Param(<<"1", "x">>),
   Param(ToDigits(OneDay + 2))}
    \cup {Param(ToDigits(n)) : n \in 0..MaxNow}

Request(op, key, timestamp, body) ==
  [op |-> op, key |-> key, timestamp |-> timestamp, body |-> body,
   clock |-> now]

NoResponse == Response(0, [none |-> TRUE], Null)

\* no validator or handler has been called directly
NoCall == [fn |-> "none"]

(***************************************************************************)
(* Bounds of the other specifications.                                     *)
(***************************************************************************)
NumWriters == 2
MaxCloseCalls == 2

\* the requests a server has accepted and not yet answered, at most
MaxInFlight == 1

\* the calls of the Database the handlers make while the server starts
MaxCalls == 2

\* the requests the serverless server is sent while it starts
NumRequests == 2

\* the calls of connect() and close() of one MongoDatabase
MaxMongoCalls == 3

\* the POST requests that may be in flight together; a handler that is not
\* running
Writers == 1..NumWriters
Idle == [pc |-> "idle"]

\* the servers with a backend to close, and the state of one after its
\* module has been loaded and its backend connected:
\*   handle   the sqlite3.Database / MongoClient: open, closing, closed
\*   assigned this.db / this.client holds the handle (is not null)
\*   isConnected  MongoDatabase.isConnected (Database has no such field)
\*   calls    the calls of close() so far, in order: who called, the state
\*            of the handle at the call, whether the handle's own close()
\*            was invoked, and how the call went (pending, ok, error)
\*   exited   process.exit(0) was called
\*   ops      the POST /object requests the server has accepted: the body
\*            and where the request is: received, queued (its statement
\*            is with the handle), answered, failed (answered 500), cut
\*            (the process exited before a response)
Durable == {"sqlite", "mongo"}
Started ==
  [handle |-> "open", assigned |-> TRUE, isConnected |-> TRUE,
   calls |-> <<>>, exited |-> FALSE, ops |-> <<>>]

\* the attempts of Database.init, and the unit of the delay between two of
\* them, in milliseconds
maxRetries == 3
retryDelay == 1000

\* the requests the serverless server is sent
Requests == 1..NumRequests

\* the start of the SQLite server, once its Database is initialized:
\*   stage    where Database.init is: connecting (connectWithRetry),
\*            tables (createTables), optimize (optimizeDatabase), ready
\*            (init has returned), waiting (before the next attempt),
\*            failed (init has thrown)
\*   attempt  the attempt of init
\*   wait     the delay init is waiting for before its next attempt, in
\*            milliseconds (0 when it is not waiting)
\*   calls    the calls of storeValue, getLatestValue and
\*            getValueAtTimestamp the request handlers have made, in order,
\*            each with the stage of init at the call
\* and the serverless server, once its module is loaded:
\*   db       the module's `db`: null, or set to the ServerlessDatabase
\*   stage    where ServerlessDatabase.init is: none, opening, tables
\*            (createTables), ready
\*   rows     the rows of kv_store of the in-memory database
\*   reqs     the POST /object requests: not arrived (idle), in
\*            initDatabase waiting for the timer (timer), waiting for
\*            storeValue (issued), answered (done); the stage of init when
\*            storeValue was called; the response
\* and the MongoDatabase of the MongoDB server, once startServer has
\* connected it and the server listens:
\*   client, collection   this.client / this.collection are set (not null)
\*   isConnected          this.isConnected
\*   connect  where a call of connect() is: idle (none is running),
\*            connecting (client.connect()), indexes (createIndexes)
\*   closes   the calls of close() that wait for client.close()
\*   made     the calls of connect() and close() made on the object
\*   events   the connects and closes that have succeeded, in order
\*   threw    a call of connect() has thrown
\*   last     the last call of storeValue or getValue: isConnected at the
\*            call, the error it threw, whether it called the collection
\*   starting, listening, exit, shutdown, served   startServer is running;
\*            app.listen was called; the code the process exited with; a
\*            signal handler has run; isConnected at each request served
\*            before any signal
MongoStarted ==
  [client |-> TRUE, collection |-> TRUE, isConnected |-> TRUE,
   connect |-> "idle", closes |-> 0, made |-> 1, events |-> <<"connect">>,
   threw |-> FALSE, last |-> NoCall,
   starting |-> FALSE, listening |-> TRUE, exit |-> "none",
   shutdown |-> FALSE, served |-> {}]

Booted ==
  [mongo |-> MongoStarted,
   sqlite |-> [stage |-> "ready", attempt |-> 1, wait |-> 0,
               calls |-> <<>>],
   serverless |-> [db |-> "null", stage |-> "none", rows |-> {},
                   reqs |-> [r \in Requests |->
                              [pc |-> "idle", body |-> NoBody,
                               at |-> "none", resp |-> NoResponse]]]]

(***************************************************************************)
(* State.                                                                  *)
(*   now        the clock, in whole seconds; the servers start at second 1 *)
(*   sqlRows    the rows of kv_store (SQLite)                              *)
(*   mongoDocs  the documents of kv_pairs (MongoDB), in insertion order    *)
(*   memStore   the Map of api/index.js                                    *)
(*   running    the server processes have not exited                       *)
(*   req, resp  the last request (with the clock reading it was served at) *)
(*              and the response of each server to it                      *)
(*   log        the acknowledged writes, in order (history)                *)
(*   fnIn, fnOut  the last direct call of a validator or handler and what  *)
(*              it gave (SpecValidators)                                   *)
(*   fault      the backends whose next put fails (SpecFailure)            *)
(*   writers    the POST handlers in flight (SpecConcurrent)               *)
(*   life       the connection of each durable backend and the signal      *)
(*              handlers of its server (SpecShutdown)                      *)
(*   boot       the initialization of the Database of the SQLite server    *)
(*              and of the serverless server (SpecStartup, SpecServerless) *)
(***************************************************************************)
Init ==
  /\ now = 1
  /\ sqlRows = {}
  /\ mongoDocs = <<>>
  /\ memStore = [k \in {} |-> <<>>]
  /\ running = TRUE
  /\ req = [op |-> "none", key |-> KEmpty, timestamp |-> Absent,
            body |-> NoBody, clock |-> 1]
  /\ resp = [sqlite |-> NoResponse, mongo |-> NoResponse,
             memory |-> NoResponse]
  /\ log = <<>>
  /\ fnIn = NoCall
  /\ fnOut = NoCall
  /\ fault = {}
  /\ writers = [w \in Writers |-> Idle]
  /\ life = [s \in Durable |-> Started]
  /\ boot = Booted

\* the clock moves on by a second
Tick ==
  /\ running
  /\ now < MaxNow
  /\ now' = now + 1
  /\ UNCHANGED <<sqlRows, mongoDocs, memStore, running, req, resp, log>>
  /\ UNCHANGED aux

\* POST /object with the same body on the three servers
Post(body) ==
  LET sqlite == SqlitePost(sqlRows, body, now)
      mongo == MongoPost(mongoDocs, body, now)
      memory == MemoryPost(memStore, body, now)
      acknowledged == sqlite.resp.status = 200
  IN  /\ running
      /\ PostRejection(body) = Null => Len(log) < MaxWrites
      /\ sqlRows' = sqlite.rows
      /\ mongoDocs' = mongo.docs
      /\ memStore' = memory.store
      /\ req' = Request("write", KEmpty, Absent, body)
      /\ resp' = [sqlite |-> sqlite.resp, mongo |-> mongo.resp,
                  memory |-> memory.resp]
      /\ log' = IF acknowledged
                THEN Append(log, [key |-> body.entries[1].key,
                                  value |-> body.entries[1].value,
                                  timestamp |-> sqlite.resp.body.timestamp])
                ELSE log
      /\ UNCHANGED <<now, running>>
      /\ UNCHANGED aux

\* GET /object/:key[?timestamp=...] with the same inputs on the three servers
Get(key, timestamp) ==
  /\ running
  /\ \E mongo \in MongoGet(mongoDocs, key, timestamp, now) :
       resp' = [sqlite |-> SqliteGet(sqlRows, key, timestamp, now),
                mongo |-> mongo,
                memory |-> MemoryGet(memStore, key, timestamp, now)]
  /\ req' = Request("read", key, timestamp, NoBody)
  /\ UNCHANGED <<now, sqlRows, mongoDocs, memStore, running, log>>
  /\ UNCHANGED aux

\* GET /health on the three servers
Health ==
  /\ running
  /\ req' = Request("health", KEmpty, Absent, NoBody)
  /\ resp' = [sqlite |-> SqliteHealth, mongo |-> MongoHealth(mongoDocs),
              memory |-> MemoryHealth(memStore)]
  /\ UNCHANGED <<now, sqlRows, mongoDocs, memStore, running, log>>
  /\ UNCHANGED aux

\* SIGTERM or SIGINT: db.close() and process.exit(0); what is stored stays
Shutdown ==
  /\ running
  /\ running' = FALSE
  /\ UNCHANGED <<now, sqlRows, mongoDocs, memStore, req, resp, log>>
  /\ UNCHANGED aux

Next ==
  \/ Tick
  \/ \E body \in Bodies : Post(body)
  \/ \E key \in PathKeys, timestamp \in TimestampParams : Get(key, timestamp)
  \/ Health
  \/ Shutdown

Spec == Init /\ [][Next]_vars

(***************************************************************************)
(* What the properties below speak of.                                     *)
(***************************************************************************)
Servers == {"sqlite", "mongo", "memory"}

\* the records each backend holds, as [key, value, timestamp]; the value of
\* a SQLite record is the stored text
SqlRecords == sqlRows

MongoRecords == {mongoDocs[i] : i \in 1..Len(mongoDocs)}

MemoryRecords ==
  UNION {{[key |-> k, value |-> memStore[k][i].value,
           timestamp |-> memStore[k][i].timestamp] :
            i \in 1..Len(memStore[k])} : k \in DOMAIN memStore}

\* r is a record of key with the greatest timestamp among those <= t
GreatestUpTo(records, r, key, t) ==
  /\ r \in records
  /\ r.key = key
  /\ r.timestamp <= t
  /\ \A q \in records :
       (q.key = key /\ q.timestamp <= t) => q.timestamp <= r.timestamp

\* r is a record of key with the greatest timestamp of all
Greatest(records, r, key) ==
  /\ r \in records
  /\ r.key = key
  /\ \A q \in records : q.key = key => q.timestamp <= r.timestamp

ReadValidKey == req.op = "read" /\ validateKey(req.key) = NoError

\* the last request is a read of a valid key as of a valid timestamp
TimedRead ==
  /\ ReadValidKey
  /\ Truthy(req.timestamp)
  /\ validateTimestamp(req.timestamp.raw, req.clock) = NoError

\* the last request is a read of a valid key with no timestamp
LatestRead == ReadValidKey /\ ~req.timestamp.present

Target == ParseInt(req.timestamp.raw)

Found(server) == resp[server].status = 200

NotFound(server) ==
  /\ resp[server].status = 404
  /\ resp[server].body.error \in
       {"Key not found", "No value found for key at the specified timestamp"}

(***************************************************************************)
(* C1: a read of a key as of a valid timestamp t, when the backend holds   *)
(* a record of the key with timestamp <= t, answers 200 with the record of  *)
(* that key whose timestamp is the greatest among those <= t, on each of   *)
(* the three servers.                                                      *)
(***************************************************************************)
PointInTimeReadFound ==
  TimedRead =>
    /\ (\E r \in SqlRecords : r.key = req.key /\ r.timestamp <= Target) =>
         /\ Found("sqlite")
         /\ \E r \in SqlRecords :
              /\ GreatestUpTo(SqlRecords, r, req.key, Target)
              /\ resp.sqlite.result.key = r.key
              /\ resp.sqlite.result.timestamp = r.timestamp
              /\ resp.sqlite.result.value.text = r.value
              /\ resp.sqlite.body.value = resp.sqlite.result.value
    /\ (\E r \in MongoRecords : r.key = req.key /\ r.timestamp <= Target) =>
         /\ Found("mongo")
         /\ \E r \in MongoRecords :
              /\ GreatestUpTo(MongoRecords, r, req.key, Target)
              /\ resp.mongo.result.timestamp = r.timestamp
              /\ resp.mongo.result.value = r.value
              /\ resp.mongo.body.value = r.value
    /\ (\E r \in MemoryRecords : r.key = req.key /\ r.timestamp <= Target) =>
         /\ Found("memory")
         /\ \E r \in MemoryRecords :
              /\ GreatestUpTo(MemoryRecords, r, req.key, Target)
              /\ resp.memory.result.timestamp = r.timestamp
              /\ resp.memory.result.value = r.value
              /\ resp.memory.body.value = r.value

\* a read as of t was answered while the key had a record at or before t
\* and another one after t
PointInTimeReadFoundWitness ==
  /\ TimedRead
  /\ \A s \in Servers : Found(s)
  /\ \E r, q \in SqlRecords :
       /\ r.key = req.key /\ q.key = req.key
       /\ r.timestamp <= Target /\ q.timestamp > Target

(***************************************************************************)
(* C2: a read of a key with no timestamp, when the backend holds records   *)
(* of the key, answers 200 with a record of that key whose timestamp is    *)
(* the maximum over all the records of the key, on each of the three       *)
(* servers.                                                                *)
(***************************************************************************)
LatestReadMaxTimestamp ==
  LatestRead =>
    /\ (\E r \in SqlRecords : r.key = req.key) =>
         /\ Found("sqlite")
         /\ \E r \in SqlRecords :
              /\ Greatest(SqlRecords, r, req.key)
              /\ resp.sqlite.result.key = r.key
              /\ resp.sqlite.result.timestamp = r.timestamp
              /\ resp.sqlite.result.value.text = r.value
              /\ resp.sqlite.body.value = resp.sqlite.result.value
    /\ (\E r \in MongoRecords : r.key = req.key) =>
         /\ Found("mongo")
         /\ \E r \in MongoRecords :
              /\ Greatest(MongoRecords, r, req.key)
              /\ resp.mongo.result.timestamp = r.timestamp
              /\ resp.mongo.result.value = r.value
              /\ resp.mongo.body.value = r.value
    /\ (\E r \in MemoryRecords : r.key = req.key) =>
         /\ Found("memory")
         /\ \E r \in MemoryRecords :
              /\ Greatest(MemoryRecords, r, req.key)
              /\ resp.memory.result.timestamp = r.timestamp
              /\ resp.memory.result.value = r.value
              /\ resp.memory.body.value = r.value

\* a latest read was answered while the key had records at two timestamps
LatestReadMaxTimestampWitness ==
  /\ LatestRead
  /\ \A s \in Servers : Found(s)
  /\ \E r, q \in MemoryRecords :
       r.key = req.key /\ q.key = req.key /\ r.timestamp < q.timestamp

\* the acknowledged writes to a key, in order
WritesTo(key) == SelectSeq(log, LAMBDA w : w.key = key)

(***************************************************************************)
(* C3: after an acknowledged write of a value to a key, a read of the key  *)
(* with no timestamp and no write to the key in between answers 200 with   *)
(* exactly the written value (type and content), on each server; and the   *)
(* timestamp a write is acknowledged with is >= the clock reading taken    *)
(* just before the write.                                                  *)
(***************************************************************************)
WriteReadRoundTrip ==
  /\ (LatestRead /\ Len(WritesTo(req.key)) > 0) =>
       \A s \in Servers :
         /\ Found(s)
         /\ resp[s].body.value =
              WritesTo(req.key)[Len(WritesTo(req.key))].value
  /\ req.op = "write" =>
       \A s \in Servers :
         resp[s].status = 200 => resp[s].body.timestamp >= req.clock

(***************************************************************************)
(* C4: when a key was written twice, with distinct values v1 then v2,      *)
(* acknowledged at seconds t1 < t2, a read of the key with no timestamp    *)
(* answers v2 and a read as of t1 answers v1, on each server.              *)
(***************************************************************************)
TwoSequentialWrites ==
  LET w == WritesTo(req.key)
  IN  (/\ ReadValidKey
       /\ Len(w) = 2
       /\ w[1].value # w[2].value
       /\ w[1].timestamp < w[2].timestamp) =>
        /\ LatestRead =>
             \A s \in Servers : Found(s) /\ resp[s].body.value = w[2].value
        /\ (TimedRead /\ Target = w[1].timestamp) =>
             \A s \in Servers : Found(s) /\ resp[s].body.value = w[1].value

(***************************************************************************)
(* C5: each of the three backends holds at most one record for a pair      *)
(* (key, timestamp).                                                       *)
(***************************************************************************)
UniqueKeyTimestamp ==
  /\ \A r, q \in sqlRows :
       (r.key = q.key /\ r.timestamp = q.timestamp) => r = q
  /\ \A i, j \in 1..Len(mongoDocs) :
       (/\ mongoDocs[i].key = mongoDocs[j].key
        /\ mongoDocs[i].timestamp = mongoDocs[j].timestamp) => i = j
  /\ \A k \in DOMAIN memStore : \A i, j \in 1..Len(memStore[k]) :
       memStore[k][i].timestamp = memStore[k][j].timestamp => i = j

(***************************************************************************)
(* C6: the three servers give the same outcome to every write and every    *)
(* read: the same kind (a result, not found, or the same kind of error)    *)
(* and, for a result, the same body.                                       *)
(***************************************************************************)
Kind(r) ==
  CASE r.status = 200 -> "Ok"
    [] r.status = 404 -> "NotFound"
    [] r.status = 400 /\ r.body.error = "Invalid key" -> "InvalidKey"
    [] r.status = 400 /\ r.body.error = "Invalid timestamp" -> "InvalidTimestamp"
    [] r.status = 400 /\ r.body.error \notin {"Invalid key", "Invalid timestamp"}
         -> "InvalidBody"
    [] OTHER -> "StorageError"

Outcome(r) ==
  [kind |-> Kind(r), body |-> IF r.status = 200 THEN r.body ELSE Null]

BackendEquivalence ==
  req.op \in {"read", "write"} =>
    /\ Outcome(resp.sqlite) = Outcome(resp.mongo)
    /\ Outcome(resp.sqlite) = Outcome(resp.memory)

BeforeFirstWrite(records) ==
  /\ \E r \in records : r.key = req.key
  /\ \A r \in records : r.key = req.key => Target < r.timestamp

PointInTimeReadNotFound ==
  TimedRead =>
    /\ BeforeFirstWrite(SqlRecords) => NotFound("sqlite")
    /\ BeforeFirstWrite(MongoRecords) => NotFound("mongo")
    /\ BeforeFirstWrite(MemoryRecords) => NotFound("memory")

\* a key with records was read as of a second before its first record
PointInTimeReadNotFoundWitness ==
  /\ TimedRead
  /\ BeforeFirstWrite(SqlRecords)
  /\ BeforeFirstWrite(MongoRecords)
  /\ BeforeFirstWrite(MemoryRecords)
  /\ \A s \in Servers : NotFound(s)

(***************************************************************************)
(* C9: a read with no timestamp of a valid key that has no records is      *)
(* answered 404 (not found) on each server; and in the in-memory server a  *)
(* key the Map does not have and a key whose array is empty are answered   *)
(* alike, whatever the timestamp parameter.                                *)
(***************************************************************************)
NonexistentKeyNotFound ==
  /\ LatestRead =>
       /\ (~\E r \in SqlRecords : r.key = req.key) => NotFound("sqlite")
       /\ (~\E r \in MongoRecords : r.key = req.key) => NotFound("mongo")
       /\ (~\E r \in MemoryRecords : r.key = req.key) => NotFound("memory")
  /\ \A k \in ValidKeys \ DOMAIN memStore : \A t \in TimestampParams :
       MemoryGet(memStore, k, t, now)
         = MemoryGet(MapSet(memStore, k, <<>>), k, t, now)

\* a key without records was read while another key had some
NonexistentKeyNotFoundWitness ==
  /\ LatestRead
  /\ ~\E r \in SqlRecords : r.key = req.key
  /\ ~\E r \in MongoRecords : r.key = req.key
  /\ req.key \notin DOMAIN memStore
  /\ DOMAIN memStore # {}
  /\ \A s \in Servers : NotFound(s)

(***************************************************************************)
(* C10: a read leaves the records of every backend as they were, and the   *)
(* same read made again, with no request in between, is given the same     *)
(* response by each server.                                                *)
(***************************************************************************)
ReadsHaveNoEffect ==
  [][/\ (req'.op = "read" /\ <<req', resp'>> # <<req, resp>>) =>
          stores' = stores
     /\ (req.op = "read" /\ req' = req) => resp' = resp
    ]_vars

(***************************************************************************)
(* C16: a read of a valid key whose timestamp parameter is present but is  *)
(* not a valid timestamp (a non-digit in it, the empty string, more than a *)
(* day ahead of the clock) is answered 400 'Invalid timestamp' by each     *)
(* server, whether or not the key has records: never a record, never 404.  *)
(***************************************************************************)
InvalidTimestampRead ==
  /\ ReadValidKey
  /\ req.timestamp.present
  /\ validateTimestamp(req.timestamp.raw, req.clock) # NoError

TimestampValidationPrecedesLookup ==
  InvalidTimestampRead =>
    \A s \in Servers : Kind(resp[s]) = "InvalidTimestamp"

(***************************************************************************)
(* C17: a read whose key fails validateKey is answered 400 'Invalid key'   *)
(* by each server, whatever the stores hold (an answer taken from a lookup *)
(* is a 200 or a 404).                                                     *)
(***************************************************************************)
ReadValidatesKey ==
  (req.op = "read" /\ validateKey(req.key) # NoError) =>
    \A s \in Servers : Kind(resp[s]) = "InvalidKey"

(***************************************************************************)
(* C18: a read of a valid key with timestamp "0" is not answered with an   *)
(* error and not as a latest read: each server whose backend has no record *)
(* of the key with timestamp <= 0 answers 404, and the SQLite server with  *)
(* the message of its point-in-time branch.                                *)
(***************************************************************************)
ReadAtZero == ReadValidKey /\ req.timestamp = Param(<<"0">>)

NoneUpToZero(records) ==
  ~\E r \in records : r.key = req.key /\ r.timestamp <= 0

TimestampZero ==
  ReadAtZero =>
    /\ validateTimestamp(req.timestamp.raw, req.clock) = NoError
    /\ NoneUpToZero(SqlRecords) =>
         /\ NotFound("sqlite")
         /\ resp.sqlite.body.error
              = "No value found for key at the specified timestamp"
    /\ NoneUpToZero(MongoRecords) => NotFound("mongo")
    /\ NoneUpToZero(MemoryRecords) => NotFound("memory")

\* timestamp "0" was read of a key that has records, all of them later
TimestampZeroWitness ==
  /\ ReadAtZero
  /\ \E r \in SqlRecords : r.key = req.key
  /\ \E r \in MongoRecords : r.key = req.key
  /\ \E r \in MemoryRecords : r.key = req.key
  /\ \A s \in Servers : NotFound(s)

(***************************************************************************)
(* SpecValidators: the validators and the POST handlers called directly,   *)
(* on inputs drawn from the pools below, at each reading of the clock.     *)
(***************************************************************************)
MaxShortKey == 2
MaxEntries == 3

SampleChars == {"a", "Z", "9", "_", ".", "-", " ", "!"}

Repeat(c, n) == [i \in 1..n |-> c]

ShortKeys == UNION {[1..n -> SampleChars] : n \in 0..MaxShortKey}

\* keys around the length limit: one character repeated, and a valid key
\* of MaxKeyLen - 1 characters followed by one more character
LongKeys ==
  {Repeat(c, n) : c \in SampleChars, n \in (MaxKeyLen - 1)..(MaxKeyLen + 1)}
    \cup {Append(Repeat("a", MaxKeyLen - 1), c) : c \in SampleChars}

InvalidKeyBang == <<"i", "n", "v", "a", "l", "i", "d", " ", "k", "e", "y", "!">>

KeyInputs == ShortKeys \cup LongKeys \cup {K2, InvalidKeyBang}

NonNumeric ==
  {<<>>, <<"1", "x">>, <<"x", "1">>, <<"-", "1">>, <<"+", "1">>,
   <<"1", ".", "5">>, <<" ", "1">>, <<"1", " ">>, <<"1", "e", "3">>,
   <<"a", "b", "c">>}

\* numbers around 0, the clock and the day ahead of it, written with and
\* without a leading zero; strings that are not numbers
TimestampInputs(clock) ==
  LET numbers == (0..(MaxNow + 1))
                   \cup {clock + OneDay + d : d \in {-1, 0, 1, 2}}
  IN  {ToDigits(n) : n \in numbers}
        \cup {<<"0">> \o ToDigits(n) : n \in numbers}
        \cup NonNumeric

JsonNull == JsonValue("null", "null")

ArityEntries ==
  {Entry(k, v) : k \in {K1, K2, KBad, KEmpty}, v \in {StrA, ObjX, JsonNull}}

\* the objects of up to MaxEntries properties (property names are distinct
\* in a parsed object)
ArityBodies ==
  UNION {{Object(e) : e \in {f \in [1..n -> ArityEntries] :
                               \A i, j \in 1..n : f[i].key = f[j].key => i = j}}
         : n \in 0..MaxEntries}

\* calls are made one at a time: each starts when the one before it has
\* returned
CallValidateKey(key) ==
  /\ fnIn = NoCall
  /\ fnIn' = [fn |-> "validateKey", key |-> key]
  /\ fnOut' = [fn |-> "validateKey", error |-> validateKey(key)]
  /\ UNCHANGED <<now, sqlRows, mongoDocs, memStore, running, req, resp, log>>
  /\ UNCHANGED <<fault, writers, life, boot>>

CallValidateTimestamp(timestamp) ==
  /\ fnIn = NoCall
  /\ fnIn' = [fn |-> "validateTimestamp", timestamp |-> timestamp, clock |-> now]
  /\ fnOut' = [fn |-> "validateTimestamp",
               result |-> timestampSchema_validate(timestamp, now)]
  /\ UNCHANGED <<now, sqlRows, mongoDocs, memStore, running, req, resp, log>>
  /\ UNCHANGED <<fault, writers, life, boot>>

\* the POST /object handler of each server applied to the body: the
\* response and the store it would leave
CallPostObject(body) ==
  /\ fnIn = NoCall
  /\ fnIn' = [fn |-> "post", body |-> body, clock |-> now]
  /\ fnOut' = [fn |-> "post",
               sqlite |-> SqlitePost(sqlRows, body, now),
               mongo |-> MongoPost(mongoDocs, body, now),
               memory |-> MemoryPost(memStore, body, now)]
  /\ UNCHANGED <<now, sqlRows, mongoDocs, memStore, running, req, resp, log>>
  /\ UNCHANGED <<fault, writers, life, boot>>

\* the caller is done with the result
Return ==
  /\ fnIn # NoCall
  /\ fnIn' = NoCall
  /\ fnOut' = NoCall
  /\ UNCHANGED <<now, sqlRows, mongoDocs, memStore, running, req, resp, log>>
  /\ UNCHANGED <<fault, writers, life, boot>>

\* JSON arrays: express.json hands them to the handler, Object.entries
\* gives their elements under the keys "0", "1", ...
ArrayBodies ==
  {[type |-> "array", entries |-> e] :
     e \in {<<>>, <<Entry(<<"0">>, StrA)>>,
            <<Entry(<<"0">>, StrA), Entry(<<"1">>, ObjX)>>}}

\* what arrives at express.json: text that is JSON, with the body it
\* parses to, or text that is not
Raw(wellFormed, body) == [wellFormed |-> wellFormed, body |-> body]

RawBodies == {Raw(FALSE, NoBody)} \cup {Raw(TRUE, body) : body \in Bodies}

\* POST /object through the middleware of server.js: the responses the
\* request is given, in order, and the table after it.  For text that is
\* not JSON the verify hook answers 400 and throws; the error reaches the
\* global error handler, which answers again
SqliteRequest(rows, raw, clock) ==
  IF raw.wellFormed
  THEN [responses |-> <<SqlitePost(rows, raw.body, clock).resp>>,
        rows |-> SqlitePost(rows, raw.body, clock).rows]
  ELSE [responses |-> <<ErrorResponse(400, "Invalid JSON format"),
                        InternalServerError>>,
        rows |-> rows]

\* server-mongodb.js: the verify hook throws, the global error handler
\* answers
MongoRequest(docs, raw, clock) ==
  IF raw.wellFormed
  THEN [responses |-> <<MongoPost(docs, raw.body, clock).resp>>,
        docs |-> MongoPost(docs, raw.body, clock).docs]
  ELSE [responses |-> <<InternalServerError>>, docs |-> docs]

\* api/index.js: express.json with no hook and no error handler; Express
\* answers the parse error with its status, 400
MemoryRequest(store, raw, clock) ==
  IF raw.wellFormed
  THEN [responses |-> <<MemoryPost(store, raw.body, clock).resp>>,
        store |-> MemoryPost(store, raw.body, clock).store]
  ELSE [responses |-> <<ErrorResponse(400, "Bad Request")>>, store |-> store]

CallRequest(raw) ==
  /\ fnIn = NoCall
  /\ fnIn' = [fn |-> "request", raw |-> raw, clock |-> now]
  /\ fnOut' = [fn |-> "request",
               sqlite |-> SqliteRequest(sqlRows, raw, now),
               mongo |-> MongoRequest(mongoDocs, raw, now),
               memory |-> MemoryRequest(memStore, raw, now)]
  /\ UNCHANGED <<now, sqlRows, mongoDocs, memStore, running, req, resp, log>>
  /\ UNCHANGED <<fault, writers, life, boot>>

NextValidators ==
  \/ Tick
  \/ Return
  \/ \E raw \in RawBodies : CallRequest(raw)
  \/ \E key \in KeyInputs : CallValidateKey(key)
  \/ \E timestamp \in TimestampInputs(now) : CallValidateTimestamp(timestamp)
  \/ \E body \in ArityBodies \cup ArrayBodies : CallPostObject(body)

SpecValidators == Init /\ [][NextValidators]_vars

\* what each POST handler gave for the body of the last direct call
PostOutcome ==
  [sqlite |-> [resp |-> fnOut.sqlite.resp,
               stored |-> fnOut.sqlite.rows # sqlRows],
   mongo |-> [resp |-> fnOut.mongo.resp,
              stored |-> fnOut.mongo.docs # mongoDocs],
   memory |-> [resp |-> fnOut.memory.resp,
               stored |-> fnOut.memory.store # memStore]]

(***************************************************************************)
(* C13: a POST whose body is an object with no property, or with two or    *)
(* more, is answered 400 with a body error by each server and stores       *)
(* nothing, whatever the names and values of the properties; a body with   *)
(* exactly one property, of any value, is never answered with a body       *)
(* error (it is stored, or refused for its key).                           *)
(***************************************************************************)
BodyArity ==
  (fnIn.fn = "post" /\ fnIn.body.type = "object") =>
    \A s \in Servers :
      IF Len(fnIn.body.entries) # 1
      THEN /\ PostOutcome[s].resp.status = 400
           /\ Kind(PostOutcome[s].resp) = "InvalidBody"
           /\ ~PostOutcome[s].stored
      ELSE /\ Kind(PostOutcome[s].resp) \in {"Ok", "InvalidKey"}
           /\ Kind(PostOutcome[s].resp) = "Ok" <=>
                validateKey(fnIn.body.entries[1].key) = NoError
           /\ PostOutcome[s].stored <=> Kind(PostOutcome[s].resp) = "Ok"

\* a body of MaxEntries properties whose first key is valid was refused
BodyArityWitness ==
  /\ fnIn.fn = "post"
  /\ Len(fnIn.body.entries) = MaxEntries
  /\ validateKey(fnIn.body.entries[1].key) = NoError
  /\ \A s \in Servers : Kind(PostOutcome[s].resp) = "InvalidBody"

(***************************************************************************)
(* C14: validateKey gives an error exactly for the keys of length 0, of    *)
(* length > 255, or with a character outside [A-Za-z0-9_.-]; it accepts    *)
(* "a.b-c_9" and refuses "invalid key!".                                   *)
(***************************************************************************)
KeyOutsideRule(key) ==
  \/ Len(key) = 0
  \/ Len(key) > 255
  \/ \E i \in 1..Len(key) :
       key[i] \notin Lower \cup Upper \cup Digits \cup {"_", ".", "-"}

RECURSIVE Decimal(_)
Decimal(digits) ==
  IF Len(digits) = 0 THEN 0
  ELSE 10 * Decimal(SubSeq(digits, 1, Len(digits) - 1))
         + DigitVal(digits[Len(digits)])

DigitString(raw) == Len(raw) >= 1 /\ \A i \in 1..Len(raw) : raw[i] \in Digits

Database_run(rows, key, value, timestamp, err) ==
  IF err
  THEN [rejected |-> TRUE, rows |-> rows]
  ELSE [rejected |-> FALSE,
        rows |-> Database_storeValue(rows, key, value, timestamp)]

\* collection.insertOne(document) of storeValue: the error is logged and
\* thrown again
MongoDatabase_insertOne(docs, key, value, clock, err) ==
  IF err
  THEN [thrown |-> TRUE, docs |-> docs, result |-> Null]
  ELSE [thrown |-> FALSE,
        docs |-> MongoDatabase_storeValue(docs, key, value, clock).docs,
        result |-> MongoDatabase_storeValue(docs, key, value, clock).result]

\* mutant: storeValue is not awaited, the handler answers before the put
\* has failed
SqlitePostFaulty_unawaited(rows, body, clock, err) ==
  IF PostRejection(body) # Null
  THEN SqlitePost(rows, body, clock)
  ELSE LET key == body.entries[1].key
           value == body.entries[1].value
           stored == Database_run(rows, key, value, clock, err)
       IN  [resp |-> SqlitePost(rows, body, clock).resp, rows |-> stored.rows]

\* POST /object of server.js with its catch branch
SqlitePostFaulty(rows, body, clock, err) ==
  IF PostRejection(body) # Null
  THEN SqlitePost(rows, body, clock)
  ELSE LET key == body.entries[1].key
           value == body.entries[1].value
           stored == Database_run(rows, key, value, clock, err)
       IN  IF stored.rejected
           THEN [resp |-> InternalServerError, rows |-> stored.rows]
           ELSE [resp |-> SqlitePost(rows, body, clock).resp,
                 rows |-> stored.rows]

\* POST /object of server-mongodb.js with its catch branch
MongoPostFaulty(docs, body, clock, err) ==
  IF PostRejection(body) # Null
  THEN MongoPost(docs, body, clock)
  ELSE LET key == body.entries[1].key
           value == body.entries[1].value
           stored == MongoDatabase_insertOne(docs, key, value, clock, err)
       IN  IF stored.thrown
           THEN [resp |-> InternalServerError, docs |-> stored.docs]
           ELSE [resp |-> Response(200, stored.result, Null),
                 docs |-> stored.docs]

\* the next put of each backend in failing will fail
InjectFault(failing) ==
  /\ fault = {}
  /\ failing # {}
  /\ fault' = failing
  /\ UNCHANGED <<now, sqlRows, mongoDocs, memStore, running, req, resp, log>>
  /\ UNCHANGED <<fnIn, fnOut, writers, life, boot>>

\* POST /object with the same body on the three servers; the armed faults
\* are used up by the puts that are made
PostUnderFault(body) ==
  LET sqlite == SqlitePostFaulty(sqlRows, body, now, "sqlite" \in fault)
      mongo == MongoPostFaulty(mongoDocs, body, now, "mongo" \in fault)
      memory == MemoryPost(memStore, body, now)
      acknowledged == memory.resp.status = 200
  IN  /\ running
      /\ PostRejection(body) = Null => Len(log) < MaxWrites
      /\ sqlRows' = sqlite.rows
      /\ mongoDocs' = mongo.docs
      /\ memStore' = memory.store
      /\ req' = Request("write", KEmpty, Absent, body)
      /\ resp' = [sqlite |-> sqlite.resp, mongo |-> mongo.resp,
                  memory |-> memory.resp]
      /\ log' = IF acknowledged
                THEN Append(log, [key |-> body.entries[1].key,
                                  value |-> body.entries[1].value,
                                  timestamp |-> memory.resp.body.timestamp])
                ELSE log
      /\ fault' = IF PostRejection(body) = Null THEN {} ELSE fault
      /\ UNCHANGED <<now, running>>
      /\ UNCHANGED <<fnIn, fnOut, writers, life, boot>>

\* getStats with its catch: when countDocuments, distinct or stats throws,
\* zeroed stats with the error message are returned
MongoDatabase_getStats_try(docs, err) ==
  IF err
  THEN [total_records |-> 0, unique_keys |-> 0, error |-> "error.message"]
  ELSE MongoDatabase_getStats(docs)

\* healthCheck of a connected MongoDatabase with its catch: only a
\* failing ping reaches it
MongoDatabase_healthCheck_try(docs, pingErr, statsErr) ==
  IF pingErr
  THEN [status |-> "error", error |-> "error.message"]
  ELSE [status |-> "connected",
        stats |-> MongoDatabase_getStats_try(docs, statsErr)]

\* GET /health of server-mongodb.js
MongoHealthFaulty(docs, pingErr, statsErr) ==
  LET health == MongoDatabase_healthCheck_try(docs, pingErr, statsErr)
  IN  IF health.status = "connected"
      THEN Response(200,
             [status |-> "healthy", database |-> health.status,
              stats |-> health.stats],
             Null)
      ELSE Response(503,
             [status |-> "unhealthy", database |-> health.status,
              stats |-> Null, error |-> health.error],
             Null)

\* GET /health on the three servers; an armed fault of MongoDB makes the
\* ping or the queries of getStats fail
HealthUnderFault(failed) ==
  /\ running
  /\ req' = Request("health", KEmpty, Absent, NoBody)
  /\ resp' = [sqlite |-> SqliteHealth,
              mongo |-> MongoHealthFaulty(mongoDocs,
                          "mongo" \in fault /\ failed = "ping",
                          "mongo" \in fault /\ failed = "stats"),
              memory |-> MemoryHealth(memStore)]
  /\ fault' = fault \ {"mongo"}
  /\ UNCHANGED <<now, sqlRows, mongoDocs, memStore, running, log>>
  /\ UNCHANGED <<fnIn, fnOut, writers, life, boot>>

\* two values for one key, a second key, and a body that is refused
FailureBodies ==
  {Object(<<Entry(K1, StrA)>>), Object(<<Entry(K1, Num5)>>),
   Object(<<Entry(K2, Num5)>>), Object(<<>>)}

NextFailure ==
  \/ Tick
  \/ \E failing \in SUBSET Durable : InjectFault(failing)
  \/ \E body \in FailureBodies : PostUnderFault(body)
  \/ Get(K1, Absent)
  \/ \E failed \in {"ping", "stats"} : HealthUnderFault(failed)

SpecFailure == Init /\ [][NextFailure]_vars

(***************************************************************************)
(* C11: when the put of a write fails on a backend, its server answers     *)
(* 500 'Internal server error', not a success, and the backend holds       *)
(* exactly the records it held before the write.                           *)
(***************************************************************************)
FailedPut ==
  /\ fault # {}
  /\ fault' = {}
  /\ req'.op = "write"

FailedWriteAtomic ==
  [][FailedPut =>
       /\ "sqlite" \in fault =>
            /\ resp'.sqlite.status = 500
            /\ resp'.sqlite.body = [error |-> "Internal server error"]
            /\ sqlRows' = sqlRows
       /\ "mongo" \in fault =>
            /\ resp'.mongo.status = 500
            /\ resp'.mongo.body = [error |-> "Internal server error"]
            /\ mongoDocs' = mongoDocs
    ]_vars

\* a write failed on SQLite alone, after an earlier write had succeeded:
\* SQLite holds the earlier record only, MongoDB holds both
FailedWriteAtomicWitness ==
  /\ req.op = "write"
  /\ resp.sqlite.status = 500
  /\ resp.mongo.status = 200
  /\ Cardinality(sqlRows) = 1
  /\ Len(mongoDocs) = 2
  /\ \A r \in SqlRecords : r.key = req.body.entries[1].key

(***************************************************************************)
(* C22: whenever GET /health of the MongoDB server reports healthy (200,   *)
(* database connected), the stats in it are those of the collection:       *)
(* total_records the number of documents, unique_keys the number of        *)
(* distinct keys; a backend that could not be queried is not reported      *)
(* healthy with zeroed stats.                                              *)
(***************************************************************************)
HealthCheckTruthful ==
  (/\ req.op = "health"
   /\ resp.mongo.status = 200
   /\ resp.mongo.body.status = "healthy") =>
    /\ resp.mongo.body.stats.total_records = Len(mongoDocs)
    /\ resp.mongo.body.stats.unique_keys
         = Cardinality({mongoDocs[i].key : i \in 1..Len(mongoDocs)})
    /\ "error" \notin DOMAIN resp.mongo.body.stats

(***************************************************************************)
(* SpecConcurrent: POST handlers of the durable servers in flight          *)
(* together.  A handler validates the body and takes the timestamp in one  *)
(* turn of the event loop (server.js takes it before `await               *)
(* db.storeValue`, MongoDatabase.storeValue before `await insertOne`); the *)
(* put is committed, and the response sent, in a later turn, in any order  *)
(* with the puts of the other handlers.                                    *)
(***************************************************************************)
ConcurrentBodies ==
  {Object(<<Entry(K1, StrA)>>), Object(<<Entry(K1, Num5)>>),
   Object(<<Entry(K2, Num5)>>)}

\* the handler runs up to its await; the handler of api/index.js has no
\* await and runs to its response
Begin(w, body) ==
  /\ running
  /\ writers[w] = Idle
  /\ PostRejection(body) = Null
  /\ writers' = [writers EXCEPT ![w] =
                   [pc |-> "pending", body |-> body, timestamp |-> now]]
  /\ memStore' = MemoryPost(memStore, body, now).store
  /\ resp' = [resp EXCEPT !.memory = MemoryPost(memStore, body, now).resp]
  /\ UNCHANGED <<now, sqlRows, mongoDocs, running, req, log>>
  /\ UNCHANGED <<fnIn, fnOut, fault, life, boot>>

\* the put of the handler is committed and the handler answers
Commit(w) ==
  /\ writers[w].pc = "pending"
  /\ LET key == writers[w].body.entries[1].key
         value == writers[w].body.entries[1].value
         timestamp == writers[w].timestamp
         stored == MongoDatabase_storeValue(mongoDocs, key, value, timestamp)
         written == [key |-> key, value |-> value, timestamp |-> timestamp]
     IN  /\ sqlRows' = Database_storeValue(sqlRows, key, value, timestamp)
         /\ mongoDocs' = stored.docs
         /\ resp' = [resp EXCEPT !.sqlite = Response(200, written, Null),
                                 !.mongo = Response(200, stored.result, Null)]
         /\ log' = Append(log, written)
  /\ req' = Request("write", KEmpty, Absent, writers[w].body)
  /\ writers' = [writers EXCEPT ![w].pc = "done"]
  /\ UNCHANGED <<now, memStore, running>>
  /\ UNCHANGED <<fnIn, fnOut, fault, life, boot>>

\* the put of the handler fails on both durable backends and the
\* handlers answer from their catch
Fail(w) ==
  /\ writers[w].pc = "pending"
  /\ LET body == writers[w].body
         timestamp == writers[w].timestamp
         sqlite == SqlitePostFaulty(sqlRows, body, timestamp, TRUE)
         mongo == MongoPostFaulty(mongoDocs, body, timestamp, TRUE)
     IN  /\ sqlRows' = sqlite.rows
         /\ mongoDocs' = mongo.docs
         /\ resp' = [resp EXCEPT !.sqlite = sqlite.resp, !.mongo = mongo.resp]
  /\ req' = Request("write", KEmpty, Absent, writers[w].body)
  /\ writers' = [writers EXCEPT ![w].pc = "failed"]
  /\ UNCHANGED <<now, memStore, running, log>>
  /\ UNCHANGED <<fnIn, fnOut, fault, life, boot>>

NextConcurrent ==
  \/ Tick
  \/ \E w \in Writers : \E body \in ConcurrentBodies : Begin(w, body)
  \/ \E w \in Writers : Commit(w)
  \/ \E w \in Writers : Fail(w)

SpecConcurrent == Init /\ [][NextConcurrent]_vars

(***************************************************************************)
(* C12: when two or more writes to a key that took the same timestamp have *)
(* been committed, in whatever order, each durable backend holds exactly   *)
(* one record for that key and timestamp, and its value is the value of    *)
(* the write committed last.                                               *)
(***************************************************************************)
\* the committed writes to key that took timestamp t, in commit order
CommittedAt(key, t) ==
  SelectSeq(log, LAMBDA w : w.key = key /\ w.timestamp = t)

ConcurrentSameTickWriters ==
  \A key \in ValidKeys : \A t \in 1..MaxNow :
    LET committed == CommittedAt(key, t)
        last == committed[Len(committed)]
        rows == {r \in sqlRows : r.key = key /\ r.timestamp = t}
        docs == {i \in 1..Len(mongoDocs) :
                   mongoDocs[i].key = key /\ mongoDocs[i].timestamp = t}
    IN  Len(committed) >= 2 =>
          /\ Cardinality(rows) = 1
          /\ \A r \in rows :
               r.value = IF last.value.type = "string" THEN last.value.text
                         ELSE JSONStringify(last.value)
          /\ Cardinality(docs) = 1
          /\ \A i \in docs : mongoDocs[i].value = last.value

(***************************************************************************)
(* C27: a step of a write to a key, whether the handler begins, commits    *)
(* or fails, and whatever other writes are in flight, leaves the records   *)
(* of every other key as they were in each backend, and every read of      *)
(* another key is answered after the step as it was before it.             *)
(***************************************************************************)
KeyDocs(docs, key) == SelectSeq(docs, LAMBDA d : d.key = key)

KeyVersions(store, key) == IF key \in DOMAIN store THEN <<store[key]>> ELSE <<>>

ReadParams == {Absent} \cup {Param(ToDigits(t)) : t \in 0..MaxNow}

KeyUntouched(key) ==
  /\ {r \in sqlRows' : r.key = key} = {r \in sqlRows : r.key = key}
  /\ KeyDocs(mongoDocs', key) = KeyDocs(mongoDocs, key)
  /\ KeyVersions(memStore', key) = KeyVersions(memStore, key)
  /\ \A p \in ReadParams :
       /\ SqliteGet(sqlRows', key, p, now) = SqliteGet(sqlRows, key, p, now)
       /\ MongoGet(mongoDocs', key, p, now) = MongoGet(mongoDocs, key, p, now)
       /\ MemoryGet(memStore', key, p, now) = MemoryGet(memStore, key, p, now)

KeyIsolation ==
  [][\A w \in Writers :
       writers'[w] # writers[w] =>
         \A key \in ValidKeys :
           key # writers'[w].body.entries[1].key => KeyUntouched(key)
    ]_vars

\* a write to one key failed and a write to the other key was committed
KeyIsolationWitness ==
  \E w, v \in Writers :
    /\ writers[w].pc = "failed"
    /\ writers[v].pc = "done"
    /\ writers[w].body.entries[1].key # writers[v].body.entries[1].key
    /\ \E r \in SqlRecords : r.key = writers[v].body.entries[1].key

(***************************************************************************)
(* SpecShutdown: the signal handlers of server.js and server-mongodb.js    *)
(* and close() of Database and MongoDatabase.  A handler calls db.close()  *)
(* and, when that resolves, process.exit(0); close() may also be called    *)
(* directly.  The handle closes its calls in the order they were made.     *)
(***************************************************************************)
Signals == {"SIGTERM", "SIGINT"}

\* the bodies of the requests that are served while a server starts or
\* shuts down: one that is accepted and one that is rejected
SmallBodies == {Object(<<Entry(K1, StrA)>>), Object(<<>>)}

CallsBy(l, callers) == {i \in 1..Len(l.calls) : l.calls[i].caller \in callers}

PendingCalls(l) == {i \in 1..Len(l.calls) : l.calls[i].outcome = "pending"}

\* the requests that have no response yet, and among them the statements
\* handed to the handle and not yet called back
InFlightOps(l) ==
  {i \in 1..Len(l.ops) : l.ops[i].pc \in {"received", "queued"}}

QueuedOps(l) == {i \in 1..Len(l.ops) : l.ops[i].pc = "queued"}

\* close() up to the handle's own close(): `if (this.db)` / `if
\* (this.client)` and the call of this.db.close(cb) / this.client.close()
close_call(l, caller) ==
  [l EXCEPT
     !.calls = Append(l.calls, [caller |-> caller, handle |-> l.handle,
                                released |-> l.assigned,
                                outcome |-> "pending",
                                inflight |-> InFlightOps(l)]),
     !.handle = IF l.assigned /\ l.handle = "open" THEN "closing"
                ELSE l.handle]

\* the rest of close(), when the handle's close() has called back or
\* settled with or without an error: the error is logged, isConnected is
\* cleared on success, the promise resolves; a signal handler then exits
close_settle(server, l, i, err) ==
  [l EXCEPT
     !.calls[i].outcome = IF err THEN "error" ELSE "ok",
     !.handle = IF l.handle = "closing" THEN "closed" ELSE l.handle,
     !.isConnected = IF server = "mongo" /\ ~err THEN FALSE
                     ELSE l.isConnected,
     !.exited = l.calls[i].caller \in Signals]

\* process.exit(0): the requests that have no response yet get none
process_exit(l) ==
  [l EXCEPT !.ops = [i \in 1..Len(l.ops) |->
                       IF i \in InFlightOps(l)
                       THEN [l.ops[i] EXCEPT !.pc = "cut"]
                       ELSE l.ops[i]]]

\* a POST /object arrives at the SQLite server, which listens for as long as
\* the process lives; express.json starts to read its body
Arrive(server, body) ==
  /\ ~life[server].exited
  /\ Len(life[server].ops) < MaxInFlight
  /\ life' = [life EXCEPT ![server].ops =
                Append(@, [pc |-> "received", body |-> body])]
  /\ UNCHANGED <<now, sqlRows, mongoDocs, memStore, running, req, resp, log>>
  /\ UNCHANGED <<fnIn, fnOut, fault, writers, boot>>

\* the body is read and the handler runs up to `await db.storeValue(...)`.
\* A rejected body is answered at once.  The statement of an accepted one
\* is handed to the handle: an open handle queues it; a handle that is
\* closing or closed calls back with an error, and the handler answers 500
Issue(server) ==
  /\ ~life[server].exited
  /\ \E i \in 1..Len(life[server].ops) :
       LET op == life[server].ops[i]
           refused == SqlitePostFaulty(sqlRows, op.body, now, TRUE)
           queued == PostRejection(op.body) = Null
                       /\ life[server].handle = "open"
       IN  /\ op.pc = "received"
           /\ life' = [life EXCEPT ![server].ops[i].pc =
                         IF queued THEN "queued"
                         ELSE IF PostRejection(op.body) = Null THEN "failed"
                         ELSE "answered"]
           /\ req' = IF queued THEN req
                     ELSE Request("write", KEmpty, Absent, op.body)
           /\ resp' = IF queued THEN resp
                      ELSE [resp EXCEPT !.sqlite = refused.resp]
  /\ UNCHANGED <<now, sqlRows, mongoDocs, memStore, running, log>>
  /\ UNCHANGED <<fnIn, fnOut, fault, writers, boot>>

\* the statement calls back and the handler sends its response
Complete(server) ==
  /\ ~life[server].exited
  /\ \E i \in QueuedOps(life[server]) :
       LET op == life[server].ops[i]
           stored == SqlitePostFaulty(sqlRows, op.body, now, FALSE)
       IN  /\ life' = [life EXCEPT ![server].ops[i].pc = "answered"]
           /\ sqlRows' = stored.rows
           /\ req' = Request("write", KEmpty, Absent, op.body)
           /\ resp' = [resp EXCEPT !.sqlite = stored.resp]
  /\ UNCHANGED <<now, mongoDocs, memStore, running, log>>
  /\ UNCHANGED <<fnIn, fnOut, fault, writers, boot>>

\* a signal is delivered and its handler runs up to `await db.close()`
Signal(server, sig) ==
  /\ ~life[server].exited
  /\ Len(life[server].calls) < MaxCloseCalls
  /\ life' = [life EXCEPT ![server] = close_call(life[server], sig)]
  /\ UNCHANGED <<now, sqlRows, mongoDocs, memStore, running, req, resp, log>>
  /\ UNCHANGED <<fnIn, fnOut, fault, writers, boot>>

\* close() is called by other code than a signal handler
CloseDirect(server) ==
  /\ ~life[server].exited
  /\ Len(life[server].calls) < MaxCloseCalls
  /\ life' = [life EXCEPT ![server] = close_call(life[server], "direct")]
  /\ UNCHANGED <<now, sqlRows, mongoDocs, memStore, running, req, resp, log>>
  /\ UNCHANGED <<fnIn, fnOut, fault, writers, boot>>

\* the oldest pending close() settles.  The close of an open handle
\* succeeds; what the close of a handle that is closing or closed reports
\* is the library's affair: with or without an error.  The handle calls
\* back the statements it was handed before it calls back its close; when
\* the caller is a signal handler, process.exit(0) follows
CloseSettle(server) ==
  LET l == life[server]
      i == CHOOSE i \in PendingCalls(l) : \A j \in PendingCalls(l) : i <= j
  IN  /\ ~l.exited
      /\ PendingCalls(l) # {}
      /\ QueuedOps(l) = {}
      /\ \E err \in BOOLEAN :
           /\ (l.calls[i].handle = "open" \/ ~l.calls[i].released) => ~err
           /\ life' = [life EXCEPT ![server] =
                         IF l.calls[i].caller \in Signals
                         THEN process_exit(close_settle(server, l, i, err))
                         ELSE close_settle(server, l, i, err)]
      /\ UNCHANGED <<now, sqlRows, mongoDocs, memStore, running, req, resp, log>>
      /\ UNCHANGED <<fnIn, fnOut, fault, writers, boot>>

NextShutdown ==
  \/ \E server \in Durable : \E sig \in Signals : Signal(server, sig)
  \/ \E server \in Durable : CloseDirect(server)
  \/ \E server \in Durable : CloseSettle(server)
  \/ \E body \in SmallBodies : Arrive("sqlite", body)
  \/ Issue("sqlite")
  \/ Complete("sqlite")

SpecShutdown == Init /\ [][NextShutdown]_vars

(***************************************************************************)
(* C19: whatever the order and timing of SIGTERM and SIGINT, the signal    *)
(* handlers of a server call close() of its backend once: never twice,     *)
(* and once by the time the process has exited.                            *)
(***************************************************************************)
CloseExactlyOnce ==
  \A server \in Durable :
    /\ Cardinality(CallsBy(life[server], Signals)) <= 1
    /\ life[server].exited =>
         Cardinality(CallsBy(life[server], Signals)) = 1

(***************************************************************************)
(* C20: a call of close() on a backend whose handle is already closed      *)
(* does not invoke the handle's close() again, reports no error, and       *)
(* leaves the backend closed.                                              *)
(***************************************************************************)
CloseIdempotent ==
  \A server \in Durable :
    \A i \in 1..Len(life[server].calls) :
      life[server].calls[i].handle = "closed" =>
        /\ ~life[server].calls[i].released
        /\ life[server].calls[i].outcome # "error"
        /\ life[server].handle = "closed"

(***************************************************************************)
(* SpecHistory: every handler of Spec, with the reads of one key: the      *)
(* steps that could touch the records of the stores.                       *)
(***************************************************************************)
NextHistory ==
  \/ Tick
  \/ \E body \in Bodies : Post(body)
  \/ \E timestamp \in {Absent, Param(ToDigits(now))} : Get(K1, timestamp)
  \/ Health
  \/ Shutdown

SpecHistory == Init /\ [][NextHistory]_vars

(***************************************************************************)
(* SpecStore: the writes of Spec, and reads as of the current reading of   *)
(* the clock.  Its claims apply the read handlers, in the formula, to      *)
(* every key and target in each store the writes can build.                *)
(***************************************************************************)
NextStore ==
  \/ Tick
  \/ \E body \in Bodies : Post(body)
  \/ \E key \in ValidKeys : Get(key, Param(ToDigits(now)))

SpecStore == Init /\ [][NextStore]_vars

(***************************************************************************)
(* C23: in the in-memory server the versions of each key are the           *)
(* acknowledged writes to the key in the order they were made, their       *)
(* timestamps never decrease along the list, and so the last version, and  *)
(* the last of those with timestamp <= t for any t, has the greatest       *)
(* timestamp among them.                                                   *)
(***************************************************************************)
LastIsGreatest(versions) ==
  Len(versions) > 0 =>
    \A i \in 1..Len(versions) :
      versions[i].timestamp <= versions[Len(versions)].timestamp

PerKeyOrdering ==
  \A key \in DOMAIN memStore :
    LET versions == memStore[key]
    IN  /\ \A i, j \in 1..Len(versions) :
             i <= j => versions[i].timestamp <= versions[j].timestamp
        /\ Len(versions) = Len(WritesTo(key))
        /\ \A i \in 1..Len(versions) :
             versions[i] = [value |-> WritesTo(key)[i].value,
                            timestamp |-> WritesTo(key)[i].timestamp]
        /\ LastIsGreatest(versions)
        /\ \A t \in 0..(MaxNow + 1) : LastIsGreatest(Filter(versions, t))

\* a key was written at two different readings of the clock
PerKeyOrderingWitness ==
  /\ req.op = "write"
  /\ \E key \in DOMAIN memStore :
       /\ Len(memStore[key]) = 2
       /\ memStore[key][1].timestamp < memStore[key][2].timestamp

(***************************************************************************)
(* C25: for a key with records and a valid t >= the timestamp of its       *)
(* latest record, the read with no timestamp and the read as of t are      *)
(* answered with the same value, of the same type, by each server.         *)
(***************************************************************************)
\* the targets that are not before the latest record of key in records
LateTargets(records, key) ==
  {t \in 0..(MaxNow + 1) :
     /\ validateTimestamp(ToDigits(t), now) = NoError
     /\ \E r \in records : r.key = key
     /\ \A r \in records : r.key = key => r.timestamp <= t}

LatestAgreesWithLateRead ==
  \A key \in ValidKeys :
    /\ \A t \in LateTargets(SqlRecords, key) :
         SqliteGet(sqlRows, key, Absent, now).body
           = SqliteGet(sqlRows, key, Param(ToDigits(t)), now).body
    /\ \A t \in LateTargets(MongoRecords, key) :
         \A latest \in MongoGet(mongoDocs, key, Absent, now) :
           \A timed \in MongoGet(mongoDocs, key, Param(ToDigits(t)), now) :
             latest.body = timed.body
    /\ \A t \in LateTargets(MemoryRecords, key) :
         MemoryGet(memStore, key, Absent, now).body
           = MemoryGet(memStore, key, Param(ToDigits(t)), now).body

(***************************************************************************)
(* C26: in every state of the stores, for valid t1 <= t2, when the read    *)
(* of a key as of t1 is answered with a record, so is the read as of t2,   *)
(* and with a record whose timestamp is not smaller.                       *)
(***************************************************************************)
Later(first, second) ==
  first.status = 200 =>
    /\ second.status = 200
    /\ first.result.timestamp <= second.result.timestamp

PointInTimeMonotone ==
  \A key \in ValidKeys : \A t1, t2 \in 0..(MaxNow + 1) :
    t1 <= t2 =>
      LET p1 == Param(ToDigits(t1))
          p2 == Param(ToDigits(t2))
      IN  /\ Later(SqliteGet(sqlRows, key, p1, now),
                   SqliteGet(sqlRows, key, p2, now))
          /\ \A first \in MongoGet(mongoDocs, key, p1, now) :
               \A second \in MongoGet(mongoDocs, key, p2, now) :
                 Later(first, second)
          /\ Later(MemoryGet(memStore, key, p1, now),
                   MemoryGet(memStore, key, p2, now))

\* a key with records at two timestamps was read as of the later one
PointInTimeMonotoneWitness ==
  /\ TimedRead
  /\ \A s \in Servers : Found(s)
  /\ \E r, q \in SqlRecords :
       /\ r.key = req.key /\ q.key = req.key
       /\ r.timestamp < q.timestamp /\ q.timestamp <= Target
  /\ resp.sqlite.result.timestamp > 1

(***************************************************************************)
(* C24: a request is given at most one response; a POST whose body is not  *)
(* JSON is answered 400, stores nothing, and no second response is         *)
(* attempted for it.                                                       *)
(***************************************************************************)
RequestOutcome ==
  [sqlite |-> [responses |-> fnOut.sqlite.responses,
               stored |-> fnOut.sqlite.rows # sqlRows],
   mongo |-> [responses |-> fnOut.mongo.responses,
              stored |-> fnOut.mongo.docs # mongoDocs],
   memory |-> [responses |-> fnOut.memory.responses,
               stored |-> fnOut.memory.store # memStore]]

OneResponsePerRequest ==
  fnIn.fn = "request" =>
    \A s \in Servers :
      /\ Len(RequestOutcome[s].responses) <= 1
      /\ ~fnIn.raw.wellFormed =>
           /\ RequestOutcome[s].responses[1].status = 400
           /\ ~RequestOutcome[s].stored

(***************************************************************************)
(* C28: a POST refused for its body or its key stores nothing and is       *)
(* answered without a timestamp; the shape of the body is checked first    *)
(* (a body that is not an object, or has no property, is a body error      *)
(* whatever it holds), then the number of properties (two or more are      *)
(* refused before any key is looked at), then the key; only a body that    *)
(* passes all three is given the reading of the clock and stored.          *)
(***************************************************************************)
RejectedWritesChangeNothing ==
  fnIn.fn = "post" =>
    \A s \in Servers :
      LET body == fnIn.body
          out == PostOutcome[s]
          error == out.resp.body.error
      IN  /\ Kind(out.resp) \in {"InvalidBody", "InvalidKey"} =>
               /\ ~out.stored
               /\ DOMAIN out.resp.body = {"error"}
               /\ out.resp.result = Null
          /\ (body.type # "object" \/ Len(body.entries) = 0) =>
               out.resp.status = 400 /\ error = "Invalid request body"
          /\ (body.type = "object" /\ Len(body.entries) >= 2) =>
               /\ out.resp.status = 400
               /\ error = "Request body must contain exactly one key-value pair"
          /\ (body.type = "object" /\ Len(body.entries) = 1
                /\ validateKey(body.entries[1].key) # NoError) =>
               out.resp.status = 400 /\ error = "Invalid key"
          /\ (body.type = "object" /\ Len(body.entries) = 1
                /\ validateKey(body.entries[1].key) = NoError) =>
               /\ out.resp.status = 200
               /\ out.resp.body.timestamp = fnIn.clock
               /\ out.stored

\* a body of two properties, the first with an invalid key, was refused
\* for the number of its properties
RejectedWritesChangeNothingWitness ==
  /\ fnIn.fn = "post"
  /\ fnIn.body.type = "object"
  /\ Len(fnIn.body.entries) = 2
  /\ validateKey(fnIn.body.entries[1].key) # NoError
  /\ \A s \in Servers :
       /\ PostOutcome[s].resp.body.error
            = "Request body must contain exactly one key-value pair"
       /\ ~PostOutcome[s].stored

(***************************************************************************)
(* C21: a shutdown signal that arrives while requests are being served     *)
(* cuts none of them off: every request that was in flight when the signal *)
(* arrived gets its response, or its error response, before the process    *)
(* exits.                                                                  *)
(***************************************************************************)
NoOperationCut ==
  \A server \in Durable :
    \A c \in CallsBy(life[server], Signals) :
      \A i \in life[server].calls[c].inflight :
        life[server].ops[i].pc # "cut"

(***************************************************************************)
(* SpecStartup: the start of the SQLite server.  Loading server.js          *)
(* constructs the Database, whose constructor calls init() without waiting *)
(* for it, and calls app.listen; init connects, creates the tables and     *)
(* optimizes, up to maxRetries times.  The handlers are those of server.js *)
(* and reach the Database through the module's `db`.                       *)
(***************************************************************************)
\* node loads server.js: `const db = new Database()` assigns this.db a
\* handle that is opening, and the server listens
Load ==
  /\ boot.sqlite.stage \in {"ready", "failed"}
  /\ boot' = [boot EXCEPT !.sqlite.stage = "connecting",
                          !.sqlite.attempt = 1,
                          !.sqlite.wait = 0]
  /\ UNCHANGED <<now, sqlRows, mongoDocs, memStore, running, req, resp, log>>
  /\ UNCHANGED <<fnIn, fnOut, fault, writers, life>>

\* mutant: the catch of init waits after every attempt
Database_init_catch_unbounded(b) ==
  [b EXCEPT !.stage = "waiting", !.wait = retryDelay * b.attempt]

\* the catch of init: the last attempt throws, an earlier one waits
\* retryDelay * attempt
Database_init_catch(b) ==
  IF b.attempt = maxRetries
  THEN [b EXCEPT !.stage = "failed"]
  ELSE [b EXCEPT !.stage = "waiting", !.wait = retryDelay * b.attempt]

\* the handle calls back connectWithRetry's callback, with or without an error
InitConnect(err) ==
  /\ boot.sqlite.stage = "connecting"
  /\ boot' = [boot EXCEPT !.sqlite =
                IF err THEN Database_init_catch(@)
                ELSE [@ EXCEPT !.stage = "tables"]]
  /\ UNCHANGED <<now, sqlRows, mongoDocs, memStore, running, req, resp, log>>
  /\ UNCHANGED <<fnIn, fnOut, fault, writers, life>>

\* createTables' exec calls back, with or without an error
InitCreateTables(err) ==
  /\ boot.sqlite.stage = "tables"
  /\ boot' = [boot EXCEPT !.sqlite =
                IF err THEN Database_init_catch(@)
                ELSE [@ EXCEPT !.stage = "optimize"]]
  /\ UNCHANGED <<now, sqlRows, mongoDocs, memStore, running, req, resp, log>>
  /\ UNCHANGED <<fnIn, fnOut, fault, writers, life>>

\* optimizeDatabase resolves whether its exec called back with an error
\* (which is only logged) or without one
Database_optimizeDatabase(b, err) == [b EXCEPT !.stage = "ready"]

\* optimizeDatabase's exec calls back, with or without an error; init returns
InitOptimize(err) ==
  /\ boot.sqlite.stage = "optimize"
  /\ boot' = [boot EXCEPT !.sqlite = Database_optimizeDatabase(@, err)]
  /\ UNCHANGED <<now, sqlRows, mongoDocs, memStore, running, req, resp, log>>
  /\ UNCHANGED <<fnIn, fnOut, fault, writers, life>>

\* the delay before the next attempt has passed
InitRetry ==
  /\ boot.sqlite.stage = "waiting"
  /\ boot' = [boot EXCEPT !.sqlite.stage = "connecting",
                          !.sqlite.attempt = @ + 1,
                          !.sqlite.wait = 0]
  /\ UNCHANGED <<now, sqlRows, mongoDocs, memStore, running, req, resp, log>>
  /\ UNCHANGED <<fnIn, fnOut, fault, writers, life>>

\* a statement handed to the handle while init has not returned: whether it
\* is run against the table or calls back with an error is the library's
\* affair
StatementErrors(stage) == IF stage = "ready" THEN {FALSE} ELSE BOOLEAN

\* POST /object arrives at the listening server; the handler of an accepted
\* body calls db.storeValue
StartupPost(body) ==
  /\ running
  /\ PostRejection(body) = Null => Len(boot.sqlite.calls) < MaxCalls
  /\ \E err \in StatementErrors(boot.sqlite.stage) :
       LET sqlite == SqlitePostFaulty(sqlRows, body, now, err)
       IN  /\ sqlRows' = sqlite.rows
           /\ resp' = [resp EXCEPT !.sqlite = sqlite.resp]
           /\ log' = IF sqlite.resp.status = 200
                     THEN Append(log, [key |-> body.entries[1].key,
                                       value |-> body.entries[1].value,
                                       timestamp |-> now])
                     ELSE log
  /\ req' = Request("write", KEmpty, Absent, body)
  /\ boot' = IF PostRejection(body) = Null
             THEN [boot EXCEPT !.sqlite.calls =
                     Append(@, [fn |-> "storeValue",
                                stage |-> boot.sqlite.stage])]
             ELSE boot
  /\ UNCHANGED <<now, mongoDocs, memStore, running>>
  /\ UNCHANGED <<fnIn, fnOut, fault, writers, life>>

\* GET /object/:key[?timestamp=...] arrives at the listening server; the
\* handler of an accepted request calls db.getValueAtTimestamp or
\* db.getLatestValue
StartupGet(key, timestamp) ==
  LET answered == SqliteGet(sqlRows, key, timestamp, now)
      called == answered.status # 400
  IN  /\ running
      /\ called => Len(boot.sqlite.calls) < MaxCalls
      /\ \E err \in StatementErrors(boot.sqlite.stage) :
           resp' = [resp EXCEPT !.sqlite =
                      IF called /\ err THEN InternalServerError
                      ELSE answered]
      /\ req' = Request("read", key, timestamp, NoBody)
      /\ boot' = IF called
                 THEN [boot EXCEPT !.sqlite.calls =
                         Append(@, [fn |-> IF Truthy(timestamp)
                                           THEN "getValueAtTimestamp"
                                           ELSE "getLatestValue",
                                    stage |-> boot.sqlite.stage])]
                 ELSE boot
      /\ UNCHANGED <<now, sqlRows, mongoDocs, memStore, running, log>>
      /\ UNCHANGED <<fnIn, fnOut, fault, writers, life>>

NextStartup ==
  \/ Load
  \/ \E err \in BOOLEAN : InitConnect(err)
  \/ \E err \in BOOLEAN : InitCreateTables(err)
  \/ \E err \in BOOLEAN : InitOptimize(err)
  \/ InitRetry
  \/ \E body \in SmallBodies : StartupPost(body)
  \/ \E timestamp \in {Absent, Param(ToDigits(now))} :
       StartupGet(K1, timestamp)

SpecStartup == Init /\ [][NextStartup]_vars

(***************************************************************************)
(* C29: in the SQLite server, no call of storeValue, getLatestValue or     *)
(* getValueAtTimestamp by a request handler is made before Database.init   *)
(* has completed: the connection is open and the kv_store table created.   *)
(***************************************************************************)
InitBeforeCalls ==
  \A i \in 1..Len(boot.sqlite.calls) : boot.sqlite.calls[i].stage = "ready"

(***************************************************************************)
(* SpecServerless: the first requests of the serverless server.  Each      *)
(* handler awaits initDatabase(), which constructs the ServerlessDatabase  *)
(* when `db` is null and then waits 100 ms; the constructor calls init()   *)
(* without waiting for it, and init opens the in-memory database and       *)
(* creates the tables in the callback of the open.                         *)
(***************************************************************************)
\* POST /object after `await initDatabase()`: a rejected body is answered;
\* an accepted one calls database.storeValue, at the stage init is in
ServerlessPost_validated(q, stage) ==
  IF PostRejection(q.body) # Null
  THEN [q EXCEPT !.pc = "done", !.resp = PostRejection(q.body)]
  ELSE [q EXCEPT !.pc = "issued", !.at = stage]

\* a POST /object arrives and its handler calls initDatabase(): with `db`
\* null, the database is constructed, init starts to open it and the
\* handler waits for the timer; with `db` set, initDatabase returns it and
\* the handler goes on
ServerlessArrive(r, body) ==
  LET b == boot.serverless
      q == [b.reqs[r] EXCEPT !.body = body]
  IN  /\ b.reqs[r].pc = "idle"
      /\ boot' = [boot EXCEPT !.serverless =
                    IF b.db = "null"
                    THEN [b EXCEPT !.db = "set", !.stage = "opening",
                                   !.reqs[r] = [q EXCEPT !.pc = "timer"]]
                    ELSE [b EXCEPT !.reqs[r] =
                                     ServerlessPost_validated(q, b.stage)]]
      /\ UNCHANGED <<now, sqlRows, mongoDocs, memStore, running, req, resp, log>>
      /\ UNCHANGED <<fnIn, fnOut, fault, writers, life>>

\* the 100 ms of initDatabase have passed, whatever init has done by then
TimerFires(r) ==
  LET b == boot.serverless
  IN  /\ b.reqs[r].pc = "timer"
      /\ boot' = [boot EXCEPT !.serverless.reqs[r] =
                    ServerlessPost_validated(b.reqs[r], b.stage)]
      /\ UNCHANGED <<now, sqlRows, mongoDocs, memStore, running, req, resp, log>>
      /\ UNCHANGED <<fnIn, fnOut, fault, writers, life>>

\* the open of the in-memory database calls back: createTables is called
ServerlessOpened ==
  /\ boot.serverless.stage = "opening"
  /\ boot' = [boot EXCEPT !.serverless.stage = "tables"]
  /\ UNCHANGED <<now, sqlRows, mongoDocs, memStore, running, req, resp, log>>
  /\ UNCHANGED <<fnIn, fnOut, fault, writers, life>>

\* the exec of createTables calls back: init resolves
ServerlessTablesCreated ==
  /\ boot.serverless.stage = "tables"
  /\ boot' = [boot EXCEPT !.serverless.stage = "ready"]
  /\ UNCHANGED <<now, sqlRows, mongoDocs, memStore, running, req, resp, log>>
  /\ UNCHANGED <<fnIn, fnOut, fault, writers, life>>

\* the statement of storeValue calls back, once the database is open, and
\* the handler answers.  A statement that was handed over before the
\* tables were created may have run before or after their creation
ServerlessStored(r) ==
  LET b == boot.serverless
      q == b.reqs[r]
  IN  /\ q.pc = "issued"
      /\ b.stage # "opening"
      /\ \E err \in StatementErrors(q.at) :
           LET stored == SqlitePostFaulty(b.rows, q.body, now, err)
           IN  boot' = [boot EXCEPT
                          !.serverless.rows = stored.rows,
                          !.serverless.reqs[r] =
                            [q EXCEPT !.pc = "done", !.resp = stored.resp]]
      /\ UNCHANGED <<now, sqlRows, mongoDocs, memStore, running, req, resp, log>>
      /\ UNCHANGED <<fnIn, fnOut, fault, writers, life>>

NextServerless ==
  \/ Tick
  \/ \E r \in Requests : \E body \in SmallBodies :
       ServerlessArrive(r, body)
  \/ \E r \in Requests : TimerFires(r)
  \/ ServerlessOpened
  \/ ServerlessTablesCreated
  \/ \E r \in Requests : ServerlessStored(r)

SpecServerless == Init /\ [][NextServerless]_vars

(***************************************************************************)
(* C30: in the serverless server, whatever the interleaving of its         *)
(* requests, no handler calls storeValue on the database it got from       *)
(* initDatabase before the table creation of that database has completed.  *)
(***************************************************************************)
TablesBeforeStore ==
  \A r \in Requests :
    boot.serverless.reqs[r].pc \in {"issued", "done"} =>
      boot.serverless.reqs[r].at \in {"none", "ready"}

(***************************************************************************)
(* C32: Database.init makes at most 3 attempts, each of them connect, then *)
(* createTables, then optimize; it returns in the first attempt whose      *)
(* connect and createTables succeed, whatever optimize reports; after a    *)
(* failed attempt it waits attempt x 1 second before the next one, and     *)
(* after the third failed attempt it rejects.  Every step of init moves it *)
(* forward in a finite order, so it terminates.                            *)
(***************************************************************************)
InitEnded(b) == b.stage \in {"ready", "failed"}

\* how far init is: the attempt, then the stage within it
InitRank(b) ==
  10 * b.attempt
    + (CASE b.stage = "connecting" -> 1
         [] b.stage = "tables" -> 2
         [] b.stage = "optimize" -> 3
         [] b.stage = "waiting" -> 4
         [] OTHER -> 9)

\* the steps the claim allows init to take from b to c
InitStep(b, c) ==
  \/ /\ b.stage = "connecting" /\ c.stage = "tables"
     /\ c.attempt = b.attempt
  \/ /\ b.stage = "tables" /\ c.stage = "optimize"
     /\ c.attempt = b.attempt
  \/ /\ b.stage = "optimize" /\ c.stage = "ready"
     /\ c.attempt = b.attempt
  \/ /\ b.stage \in {"connecting", "tables"} /\ b.attempt < 3
     /\ c.stage = "waiting" /\ c.attempt = b.attempt
     /\ c.wait = b.attempt * 1000
  \/ /\ b.stage \in {"connecting", "tables"} /\ b.attempt = 3
     /\ c.stage = "failed" /\ c.attempt = b.attempt
  \/ /\ b.stage = "waiting" /\ c.stage = "connecting"
     /\ c.attempt = b.attempt + 1

BoundedInitRetry ==
  [][LET b == boot.sqlite
         c == boot'.sqlite
     IN  /\ c.attempt \in 1..3
         /\ (~InitEnded(b) /\ <<c.stage, c.attempt>> # <<b.stage, b.attempt>>)
              => /\ InitStep(b, c)
                 /\ InitRank(c) > InitRank(b)
                 /\ InitRank(c) <= 39
    ]_vars

\* init has rejected after its third failed attempt
BoundedInitRetryWitness ==
  /\ boot.sqlite.stage = "failed"
  /\ boot.sqlite.attempt = 3

(***************************************************************************)
(* SpecMongoDatabase: one MongoDatabase object and the calls of its        *)
(* methods, in any order: connect(), close(), storeValue(), getValue().    *)
(* A method runs up to its await in one step and from the settling of      *)
(* what it awaits in another.                                              *)
(***************************************************************************)
\* new MongoDatabase()
MongoDatabase_constructor ==
  [MongoStarted EXCEPT !.client = FALSE, !.collection = FALSE,
                       !.isConnected = FALSE, !.made = 0, !.events = <<>>,
                       !.listening = FALSE]

\* connect() up to `await this.client.connect()`
MongoDatabase_connect_call(m) ==
  [m EXCEPT !.client = TRUE, !.connect = "connecting", !.made = @ + 1]

\* connect() from the settling of client.connect(): the fields are set and
\* createIndexes is awaited, or the error is logged and thrown
MongoDatabase_connect_settle(m, err) ==
  IF err THEN [m EXCEPT !.connect = "idle", !.threw = TRUE]
  ELSE [m EXCEPT !.collection = TRUE, !.isConnected = TRUE,
                 !.connect = "indexes",
                 !.events = Append(@, "connect")]

\* createIndexes resolves with or without an error; connect() returns true
MongoDatabase_createIndexes(m, err) == [m EXCEPT !.connect = "idle"]

\* close() up to `await this.client.close()`; without a client it returns
MongoDatabase_close_call(m) ==
  IF m.client THEN [m EXCEPT !.closes = @ + 1, !.made = @ + 1]
  ELSE [m EXCEPT !.made = @ + 1]

\* close() from the settling of client.close(): isConnected is cleared, or
\* the error is logged
MongoDatabase_close_settle(m, err) ==
  IF err THEN [m EXCEPT !.closes = @ - 1]
  ELSE [m EXCEPT !.closes = @ - 1, !.isConnected = FALSE,
                 !.events = Append(@, "close")]

\* mutant: storeValue is guarded by the collection being set
MongoDatabase_storeValue_guardedByCollection(m, docs, key, value, clock, err) ==
  IF ~m.collection
  THEN [error |-> "Database not connected", operated |-> FALSE,
        docs |-> docs, result |-> Null]
  ELSE LET stored == MongoDatabase_insertOne(docs, key, value, clock, err)
       IN  [error |-> IF stored.thrown THEN "insertOne" ELSE "none",
            operated |-> TRUE, docs |-> stored.docs,
            result |-> stored.result]

\* storeValue with its guard: what it throws, whether insertOne was
\* called, the documents afterwards and the result
MongoDatabase_storeValue_guarded(m, docs, key, value, clock, err) ==
  IF ~m.isConnected
  THEN [error |-> "Database not connected", operated |-> FALSE,
        docs |-> docs, result |-> Null]
  ELSE LET stored == MongoDatabase_insertOne(docs, key, value, clock, err)
       IN  [error |-> IF stored.thrown THEN "insertOne" ELSE "none",
            operated |-> TRUE, docs |-> stored.docs,
            result |-> stored.result]

\* getValue with its guard: the outcomes it can have, one for each
\* document findOne may return, or the error findOne threw
MongoDatabase_getValue_guarded(m, docs, key, timestamp, err) ==
  IF ~m.isConnected
  THEN {[error |-> "Database not connected", operated |-> FALSE,
         result |-> Null]}
  ELSE IF err
  THEN {[error |-> "findOne", operated |-> TRUE, result |-> Null]}
  ELSE {[error |-> "none", operated |-> TRUE, result |-> result] :
          result \in MongoDatabase_getValue(docs, key, timestamp)}

Construct ==
  /\ boot.mongo.connect = "idle"
  /\ boot.mongo.closes = 0
  /\ boot' = [boot EXCEPT !.mongo = MongoDatabase_constructor]
  /\ UNCHANGED <<now, sqlRows, mongoDocs, memStore, running, req, resp, log>>
  /\ UNCHANGED <<fnIn, fnOut, fault, writers, life>>

ConnectCall ==
  /\ boot.mongo.connect = "idle"
  /\ boot.mongo.made < MaxMongoCalls
  /\ boot' = [boot EXCEPT !.mongo = MongoDatabase_connect_call(@)]
  /\ UNCHANGED <<now, sqlRows, mongoDocs, memStore, running, req, resp, log>>
  /\ UNCHANGED <<fnIn, fnOut, fault, writers, life>>

ConnectSettle(err) ==
  /\ boot.mongo.connect = "connecting"
  /\ boot' = [boot EXCEPT !.mongo = MongoDatabase_connect_settle(@, err)]
  /\ UNCHANGED <<now, sqlRows, mongoDocs, memStore, running, req, resp, log>>
  /\ UNCHANGED <<fnIn, fnOut, fault, writers, life>>

IndexesSettle(err) ==
  /\ boot.mongo.connect = "indexes"
  /\ boot' = [boot EXCEPT !.mongo = MongoDatabase_createIndexes(@, err)]
  /\ UNCHANGED <<now, sqlRows, mongoDocs, memStore, running, req, resp, log>>
  /\ UNCHANGED <<fnIn, fnOut, fault, writers, life>>

CloseCall ==
  /\ boot.mongo.made < MaxMongoCalls
  /\ boot' = [boot EXCEPT !.mongo = MongoDatabase_close_call(@)]
  /\ UNCHANGED <<now, sqlRows, mongoDocs, memStore, running, req, resp, log>>
  /\ UNCHANGED <<fnIn, fnOut, fault, writers, life>>

MongoCloseSettle(err) ==
  /\ boot.mongo.closes > 0
  /\ boot' = [boot EXCEPT !.mongo = MongoDatabase_close_settle(@, err)]
  /\ UNCHANGED <<now, sqlRows, mongoDocs, memStore, running, req, resp, log>>
  /\ UNCHANGED <<fnIn, fnOut, fault, writers, life>>

\* storeValue(key, value) is called and runs to its end
StoreValueCall(key, value, err) ==
  LET m == boot.mongo
      stored == MongoDatabase_storeValue_guarded(m, mongoDocs, key, value,
                                                 now, err)
  IN  /\ Len(mongoDocs) < MaxWrites
      /\ mongoDocs' = stored.docs
      /\ boot' = [boot EXCEPT !.mongo.last =
                    [fn |-> "storeValue", connected |-> m.isConnected,
                     error |-> stored.error, operated |-> stored.operated,
                     result |-> stored.result]]
      /\ UNCHANGED <<now, sqlRows, memStore, running, req, resp, log>>
      /\ UNCHANGED <<fnIn, fnOut, fault, writers, life>>

\* getValue(key, timestamp) is called and runs to its end
GetValueCall(key, timestamp, err) ==
  LET m == boot.mongo
  IN  /\ \E got \in MongoDatabase_getValue_guarded(m, mongoDocs, key,
                                                    timestamp, err) :
           boot' = [boot EXCEPT !.mongo.last =
                      [fn |-> "getValue", connected |-> m.isConnected,
                       error |-> got.error, operated |-> got.operated,
                       result |-> got.result]]
      /\ UNCHANGED <<now, sqlRows, mongoDocs, memStore, running, req, resp, log>>
      /\ UNCHANGED <<fnIn, fnOut, fault, writers, life>>

NextMongoDatabase ==
  \/ Tick
  \/ Construct
  \/ ConnectCall
  \/ \E err \in BOOLEAN : ConnectSettle(err)
  \/ \E err \in BOOLEAN : IndexesSettle(err)
  \/ CloseCall
  \/ \E err \in BOOLEAN : MongoCloseSettle(err)
  \/ \E key \in ValidKeys : \E err \in BOOLEAN :
       StoreValueCall(key, StrA, err)
  \/ \E timestamp \in {Absent, Param(ToDigits(now))} : \E err \in BOOLEAN :
       GetValueCall(K1, timestamp, err)

SpecMongoDatabase == Init /\ [][NextMongoDatabase]_vars

(***************************************************************************)
(* C33: isConnected is true only after a connect that succeeded and until  *)
(* the next close that succeeds; whenever it is true the collection is     *)
(* set; storeValue and getValue called while it is false throw 'Database   *)
(* not connected' and make no collection operation.                        *)
(***************************************************************************)
ConnectionGuard ==
  LET m == boot.mongo
  IN  /\ m.isConnected =>
           /\ m.events # <<>>
           /\ m.events[Len(m.events)] = "connect"
           /\ m.collection
      /\ (m.last.fn \in {"storeValue", "getValue"} /\ ~m.last.connected) =>
           /\ m.last.error = "Database not connected"
           /\ ~m.last.operated

\* storeValue was called after a close that succeeded, and refused
ConnectionGuardWitness ==
  LET m == boot.mongo
  IN  /\ m.events # <<>>
      /\ m.events[Len(m.events)] = "close"
      /\ ~m.isConnected
      /\ m.last.fn = "storeValue"
      /\ m.last.error = "Database not connected"

(***************************************************************************)
(* SpecMongoStart: the start of the MongoDB server.  Loading               *)
(* server-mongodb.js constructs the MongoDatabase, registers the signal    *)
(* handlers and calls startServer(), which awaits db.connect() and then    *)
(* calls app.listen, or exits with code 1 when connect() throws.  A signal *)
(* handler awaits db.close() and exits with code 0.                        *)
(***************************************************************************)
\* mutant: startServer calls app.listen before it awaits db.connect()
startServer_call_listenFirst(m) ==
  [MongoDatabase_connect_call(m) EXCEPT !.starting = TRUE,
                                        !.listening = TRUE]

\* startServer() up to `await db.connect(MONGODB_URI)`
startServer_call(m) ==
  [MongoDatabase_connect_call(m) EXCEPT !.starting = TRUE]

\* the catch of startServer: process.exit(1)
startServer_catch(m) ==
  [m EXCEPT !.starting = FALSE, !.listening = FALSE, !.exit = "1"]

\* startServer() after db.connect() has returned: app.listen
startServer_listen(m) ==
  [m EXCEPT !.starting = FALSE, !.listening = TRUE]

\* POST /object of server-mongodb.js on a MongoDatabase that may not be
\* connected
MongoPostGuarded(m, docs, body, clock, err) ==
  IF PostRejection(body) # Null
  THEN MongoPost(docs, body, clock)
  ELSE LET stored == MongoDatabase_storeValue_guarded(
                       m, docs, body.entries[1].key, body.entries[1].value,
                       clock, err)
       IN  IF stored.error # "none"
           THEN [resp |-> InternalServerError, docs |-> stored.docs]
           ELSE [resp |-> Response(200, stored.result, Null),
                 docs |-> stored.docs]

\* GET /object/:key[?timestamp=...] of server-mongodb.js on a MongoDatabase
\* that may not be connected: the responses it can give
MongoGetGuarded(m, docs, key, timestamp, clock, err) ==
  IF Truthy(timestamp) /\ validateTimestamp(timestamp.raw, clock) # NoError
  THEN {ErrorResponse(400, "Invalid timestamp")}
  ELSE {IF got.error # "none" THEN InternalServerError
        ELSE IF got.result = Null THEN ErrorResponse(404, "Key not found")
        ELSE Response(200, [value |-> got.result.value], got.result) :
          got \in MongoDatabase_getValue_guarded(m, docs, key, timestamp,
                                                 err)}

\* isConnected at the requests served before any signal
Served(m) == IF m.shutdown THEN m.served ELSE m.served \cup {m.isConnected}

\* node loads server-mongodb.js
MongoLoad ==
  /\ ~boot.mongo.starting
  /\ boot.mongo.closes = 0
  /\ boot' = [boot EXCEPT !.mongo =
                startServer_call(MongoDatabase_constructor)]
  /\ UNCHANGED <<now, sqlRows, mongoDocs, memStore, running, req, resp, log>>
  /\ UNCHANGED <<fnIn, fnOut, fault, writers, life>>

\* client.connect() settles: connect() goes on to createIndexes, or throws
\* and startServer exits
StartConnectSettle(err) ==
  LET m == MongoDatabase_connect_settle(boot.mongo, err)
  IN  /\ boot.mongo.starting
      /\ boot.mongo.exit = "none"
      /\ boot.mongo.connect = "connecting"
      /\ boot' = [boot EXCEPT !.mongo =
                    IF m.threw THEN startServer_catch(m) ELSE m]
      /\ UNCHANGED <<now, sqlRows, mongoDocs, memStore, running, req, resp, log>>
      /\ UNCHANGED <<fnIn, fnOut, fault, writers, life>>

\* createIndexes settles: connect() returns true and startServer listens
StartIndexesSettle(err) ==
  /\ boot.mongo.starting
  /\ boot.mongo.exit = "none"
  /\ boot.mongo.connect = "indexes"
  /\ boot' = [boot EXCEPT !.mongo =
                startServer_listen(MongoDatabase_createIndexes(@, err))]
  /\ UNCHANGED <<now, sqlRows, mongoDocs, memStore, running, req, resp, log>>
  /\ UNCHANGED <<fnIn, fnOut, fault, writers, life>>

\* POST /object is served by the listening server
MongoServePost(body, err) ==
  LET m == boot.mongo
      mongo == MongoPostGuarded(m, mongoDocs, body, now, err)
  IN  /\ m.listening
      /\ m.exit = "none"
      /\ PostRejection(body) = Null => Len(mongoDocs) < MaxWrites
      /\ mongoDocs' = mongo.docs
      /\ req' = Request("write", KEmpty, Absent, body)
      /\ resp' = [resp EXCEPT !.mongo = mongo.resp]
      /\ boot' = [boot EXCEPT !.mongo.served = Served(m)]
      /\ UNCHANGED <<now, sqlRows, memStore, running, log>>
      /\ UNCHANGED <<fnIn, fnOut, fault, writers, life>>

\* GET /object/:key is served by the listening server
MongoServeGet(key, timestamp, err) ==
  LET m == boot.mongo
  IN  /\ m.listening
      /\ m.exit = "none"
      /\ \E mongo \in MongoGetGuarded(m, mongoDocs, key, timestamp, now, err) :
           resp' = [resp EXCEPT !.mongo = mongo]
      /\ req' = Request("read", key, timestamp, NoBody)
      /\ boot' = [boot EXCEPT !.mongo.served = Served(m)]
      /\ UNCHANGED <<now, sqlRows, mongoDocs, memStore, running, log>>
      /\ UNCHANGED <<fnIn, fnOut, fault, writers, life>>

\* a signal is delivered and its handler runs up to `await db.close()`
MongoSignal(sig) ==
  /\ boot.mongo.exit = "none"
  /\ boot.mongo.made < MaxMongoCalls
  /\ boot' = [boot EXCEPT !.mongo =
                [MongoDatabase_close_call(@) EXCEPT !.shutdown = TRUE]]
  /\ UNCHANGED <<now, sqlRows, mongoDocs, memStore, running, req, resp, log>>
  /\ UNCHANGED <<fnIn, fnOut, fault, writers, life>>

\* client.close() settles, close() returns and the handler calls
\* process.exit(0)
MongoSignalSettle(err) ==
  /\ boot.mongo.exit = "none"
  /\ boot.mongo.closes > 0
  /\ boot' = [boot EXCEPT !.mongo =
                [MongoDatabase_close_settle(@, err) EXCEPT
                   !.starting = FALSE, !.listening = FALSE, !.closes = 0,
                   !.connect = "idle", !.exit = "0"]]
  /\ UNCHANGED <<now, sqlRows, mongoDocs, memStore, running, req, resp, log>>
  /\ UNCHANGED <<fnIn, fnOut, fault, writers, life>>

NextMongoStart ==
  \/ Tick
  \/ MongoLoad
  \/ \E err \in BOOLEAN : StartConnectSettle(err)
  \/ \E err \in BOOLEAN : StartIndexesSettle(err)
  \/ \E body \in SmallBodies : \E err \in BOOLEAN :
       MongoServePost(body, err)
  \/ \E err \in BOOLEAN : MongoServeGet(K1, Absent, err)
  \/ \E sig \in Signals : MongoSignal(sig)
  \/ \E err \in BOOLEAN : MongoSignalSettle(err)

SpecMongoStart == Init /\ [][NextMongoStart]_vars

(***************************************************************************)
(* C31: the MongoDB server listens only after connect() has succeeded:     *)
(* until a signal arrives, a listening server has isConnected true and     *)
(* the collection set, and every request it served found isConnected       *)
(* true; when connect() has thrown, the process has exited with code 1     *)
(* and does not listen.                                                    *)
(***************************************************************************)
MongoStartOrder ==
  LET m == boot.mongo
  IN  /\ (m.listening /\ ~m.shutdown) =>
           /\ m.isConnected
           /\ m.collection
           /\ ~m.starting
      /\ \A connected \in m.served : connected
      /\ m.threw => (m.exit = "1" /\ ~m.listening /\ m.served = {})

\* connect() has thrown on a server that was starting: it exited with
\* code 1
MongoStartOrderWitness ==
  /\ boot.mongo.threw
  /\ boot.mongo.exit = "1"
  /\ ~boot.mongo.isConnected

====
